---- MODULE Spec2Model ----
(***************************************************************************)
(* A model of tsbean-orm: the entity change tracker (DataAccessObject),    *)
(* the DataModel wrapper, the DataFinder and the filter builders, run      *)
(* against the in-memory TestDriver of tests/driver/test-driver.ts.        *)
(*                                                                         *)
(* JavaScript values are tagged records [t, v].  Arrays, dates and plain   *)
(* objects live in a heap of cells and are held by address, so that two    *)
(* holders of the same address see each other's in-place mutations, as in  *)
(* the program.  The entity type modelled is the Dummy model of            *)
(* tests/models/dummy.ts: id (string), value1 (int), data (object).        *)
(***************************************************************************)
EXTENDS Integers, Sequences, FiniteSets, TLC

\* ---------------------------------------------------------------- bounds
MaxRows == 2        \* rows the table may hold
MaxLen == 1         \* elements an array may hold
MaxPending == 1     \* insert() / save() calls awaiting their driver call
MaxVal == 2         \* largest stored number an increment may produce
TextLen == 2        \* characters of a string searched in or for
QueryRows == 3      \* rows of a table queried with filters, orderings and windows
MaxFilters == 3     \* DataFilter objects application code may hold

\* ------------------------------------------------------------ small sets
Trackers == {1, 2}              \* the entity instances (each owns one tracker)
Callers == {0} \cup Trackers
Finder == CHOOSE c \in Callers : c \notin Trackers   \* caller id of the static DataFinder
KeyIds == {1, 2}                \* string ids "dummy-1", "dummy-2"
Numbers == {0, 1}               \* values of the int field and of elements
DriverErrors == {1, 2}          \* distinct errors the driver may raise
ObjKeys == <<"a", "b">>         \* keys of plain objects, in sort order
Addr == 1 .. (2 * Cardinality(Trackers) + MaxRows + 1)

\* --------------------------------------------------------------- values
Null == [t |-> "null", v |-> 0]
Undefined == [t |-> "undefined", v |-> 0]
Num(n) == [t |-> "number", v |-> n]
Str(n) == [t |-> "string", v |-> n]
Bool(b) == [t |-> "boolean", v |-> IF b THEN 1 ELSE 0]
\* a string held by its characters
Text(chars) == [t |-> "text", chars |-> chars]
Ref(a) == [t |-> "object", v |-> a]
DEFAULT == "default"
TABLE == "dummy"
\* the tracker (this.dao) of entity d: the source, the table and the name of
\* the primary key it was constructed with, and whether its ref is the entity
\* (init() was called) or still the empty object of the constructor
DaoOf(d, pk, bound) ==
    [t |-> "dao", v |-> d, pk |-> pk, bound |-> bound, source |-> DEFAULT, table |-> TABLE]
\* the tracker of a Dummy, whose constructor ends with init()
DaoVal(d) == DaoOf(d, "id", TRUE)
\* an object {update: "set", value: x} or {update: "inc", value: n}: what
\* DataUpdate.set(x) and DataUpdate.increment(n) make, and any other object of
\* that shape
UpdSet(x) == [t |-> "set", v |-> x]
UpdInc(n) == [t |-> "inc", v |-> n]

FreeCell == [kind |-> "free", keys |-> <<>>, vals |-> <<>>]
ArrayCell(vals) == [kind |-> "array", keys |-> <<>>, vals |-> vals]
DateCell(time) == [kind |-> "date", keys |-> <<>>, vals |-> <<Num(time)>>]
ObjectCell(keys, vals) == [kind |-> "object", keys |-> keys, vals |-> vals]

\* o[key] of a row or entity: undefined when the key is absent
Get(o, key) == IF key \in DOMAIN o THEN o[key] ELSE Undefined

\* Object.keys order of a Dummy instance: dao is assigned first
FieldOrder == <<"dao", "id", "value1", "data">>
DataFields == {"id", "value1", "data"}
\* DataSource.DEFAULT, the source name of Dummy; another name
SourceNames == {DEFAULT, "other"}
\* the DataSource objects of the application (all on the TestDriver); the
\* one tests/index.ts makes
DataSources == {1, 2}
TestSource == 1
PRIMARY_KEY == "id"

Range(s) == {s[i] : i \in DOMAIN s}
SeqOfKeys(o) == SelectSeq(FieldOrder, LAMBDA k : k \in DOMAIN o)

\* Position of a key in the sort order
RECURSIVE IndexOf(_, _, _)
IndexOf(seq, x, i) ==
    IF i > Len(seq) THEN 0
    ELSE IF seq[i] = x THEN i ELSE IndexOf(seq, x, i + 1)
Rank(k) == IndexOf(ObjKeys, k, 1)

\* ----------------------------------------------------------------- heap
Alloc(h) == CHOOSE a \in Addr : h[a].kind = "free" /\ \A b \in Addr : h[b].kind = "free" => a <= b
HasFree(h) == \E a \in Addr : h[a].kind = "free"

\* a variant that also leaves out every value of typeof "object"
IsSkippedObjects(val) == val.t \in {"dao", "object"}
\* typeof val === "function" never holds of a modelled value
IsSkipped(val) == val.t = "dao"

\* dao.ts makeCopyOfObject: returns the copy and the heap holding it
RECURSIVE makeCopyOfObject(_, _)
RECURSIVE CopyElems(_, _, _)
CopyElems(vals, i, acc) ==
    \* acc = [vals |-> copied so far, h |-> heap]
    IF i > Len(vals) THEN acc
    ELSE LET c == makeCopyOfObject(vals[i], acc.h)
         IN CopyElems(vals, i + 1, [vals |-> Append(acc.vals, c.val), h |-> c.h])
\* a variant that hands back the reference of a nested value instead of a copy
makeCopyOfObjectShared(original, h) == [val |-> original, h |-> h]
makeCopyOfObject(original, h) ==
    IF original.t # "object" THEN [val |-> original, h |-> h]
    ELSE LET cell == h[original.v]
             a == Alloc(h)
         IN IF cell.kind = "date"
            THEN [val |-> Ref(a), h |-> [h EXCEPT ![a] = DateCell(cell.vals[1].v)]]
            ELSE LET r == CopyElems(cell.vals, 1,
                              [vals |-> <<>>, h |-> [h EXCEPT ![a] = [cell EXCEPT !.vals = <<>>]]])
                 IN [val |-> Ref(a), h |-> [r.h EXCEPT ![a].vals = r.vals]]

\* makeCopyOfObject applied to an entity or a row (a first-level object):
\* the attributes are copied in key order, functions and DAOs skipped
RECURSIVE CopyFields(_, _, _, _)
CopyFields(o, keys, i, acc) ==
    IF i > Len(keys) THEN acc
    ELSE LET val == o[keys[i]]
         IN IF IsSkipped(val) THEN CopyFields(o, keys, i + 1, acc)
            ELSE LET c == makeCopyOfObject(val, acc.h)
                 IN CopyFields(o, keys, i + 1,
                        [val |-> [k \in DOMAIN acc.val \cup {keys[i]} |->
                                     IF k = keys[i] THEN c.val ELSE acc.val[k]],
                         h |-> c.h])
EmptyObj == [k \in {} |-> Null]
makeCopyOfBean(o, h) == CopyFields(o, SeqOfKeys(o), 1, [val |-> EmptyObj, h |-> h])

RECURSIVE InsertSorted(_, _)
InsertSorted(s, k) ==
    IF s = <<>> THEN <<k>>
    ELSE IF Rank(k) <= Rank(Head(s)) THEN <<k>> \o s
    ELSE <<Head(s)>> \o InsertSorted(Tail(s), k)
RECURSIVE SortKeys(_)
SortKeys(keys) == IF keys = <<>> THEN <<>> ELSE InsertSorted(SortKeys(Tail(keys)), Head(keys))
\* a variant of getRealKeys without the final sort()
getRealKeysUnsorted(cell) ==
    SelectSeq(cell.keys, LAMBDA k : ~IsSkipped(cell.vals[IndexOf(cell.keys, k, 1)]))
\* dao.ts getRealKeys: the keys of a plain object, sorted
getRealKeys(cell) ==
    SortKeys(SelectSeq(cell.keys, LAMBDA k : ~IsSkipped(cell.vals[IndexOf(cell.keys, k, 1)])))

compareArrays(a1, a2) ==
    /\ Len(a1) = Len(a2)
    /\ \A i \in 1 .. Len(a1) : a1[i] = a2[i]

getType(o, h) ==
    IF o.t = "object" THEN h[o.v].kind ELSE o.t

CellGet(cell, key) ==
    IF IndexOf(cell.keys, key, 1) = 0 THEN Undefined ELSE cell.vals[IndexOf(cell.keys, key, 1)]

RECURSIVE isEqualsRecursive(_, _, _)
isEqualsRecursive(o1, o2, h) ==
    LET t1 == getType(o1, h)
        t2 == getType(o2, h)
    IN IF t1 # t2 THEN FALSE
       ELSE CASE t1 = "date" -> h[o1.v].vals[1].v = h[o2.v].vals[1].v
              [] t1 = "array" ->
                   /\ Len(h[o1.v].vals) = Len(h[o2.v].vals)
                   /\ \A i \in 1 .. Len(h[o1.v].vals) :
                          isEqualsRecursive(h[o1.v].vals[i], h[o2.v].vals[i], h)
              [] t1 = "object" ->
                   LET keys1 == getRealKeys(h[o1.v])
                       keys2 == getRealKeys(h[o2.v])
                   IN /\ compareArrays(keys1, keys2)
                      /\ \A i \in 1 .. Len(keys1) :
                             isEqualsRecursive(CellGet(h[o1.v], keys1[i]),
                                               CellGet(h[o2.v], keys1[i]), h)
              [] OTHER -> o1 = o2

\* a variant comparing with !== in place of isEqualsRecursive
firstLevelObjectDifferenceShallow(original, changed, h) ==
    LET keys == {k \in DOMAIN changed :
                    /\ ~IsSkipped(changed[k])
                    /\ Get(original, k) # changed[k]}
    IN [k \in keys |-> changed[k]]
\* a variant that returns every field of the entity
firstLevelObjectDifferenceWhole(original, changed, h) ==
    [k \in {f \in DOMAIN changed : ~IsSkipped(changed[f])} |-> changed[k]]
\* dao.ts firstLevelObjectDifference: the changed fields, by reference
firstLevelObjectDifference(original, changed, h) ==
    LET keys == {k \in DOMAIN changed :
                    /\ ~IsSkipped(changed[k])
                    /\ ~isEqualsRecursive(Get(original, k), changed[k], h)}
    IN [k \in keys |-> changed[k]]

\* common.ts enforceType, on the values the Dummy model passes to it
enforceType(value, type) ==
    IF value.t \in {"undefined", "null"} THEN Null
    ELSE CASE type = "string" -> IF value.t = "text" THEN value ELSE Str(value.v)
           [] type = "int" -> Num(value.v)
           [] type = "object" -> IF value.t = "object" THEN value ELSE Null
           [] OTHER -> Null

\* ------------------------------------------------- strings and RegExp
\* String(x), as RegExp.prototype.test converts its argument
Digit(n) == <<"0", "1", "2", "3", "4", "5", "6", "7", "8", "9">>[n + 1]
StringOf(x) ==
    CASE x.t = "text" -> x.chars
      [] x.t = "null" -> <<"n", "u", "l", "l">>
      [] x.t = "undefined" -> <<"u", "n", "d", "e", "f", "i", "n", "e", "d">>
      [] x.t = "number" -> <<Digit(x.v)>>
      [] x.t = "string" -> <<"d", "u", "m", "m", "y", "-", Digit(x.v)>>
      [] x.t = "boolean" -> IF x.v = 1 THEN <<"t", "r", "u", "e">>
                            ELSE <<"f", "a", "l", "s", "e">>
\* the characters of the class [-[\]{}()*+?.,\\^$|#\s] (of \s: space and tab)
Special == {"-", "[", "]", "{", "}", "(", ")", "*", "+", "?", ".", ",", "\\", "^", "$",
            "|", "#", " ", "\t"}
\* a variant that leaves the text as it is
escapeRegExpNothing(text) == text
\* util.ts escapeRegExp: text.replace(/[...]/g, "\\$&")
RECURSIVE escapeRegExp(_)
escapeRegExp(text) ==
    IF text = <<>> THEN <<>>
    ELSE (IF Head(text) \in Special THEN <<"\\", Head(text)>> ELSE <<Head(text)>>)
         \o escapeRegExp(Tail(text))
\* new RegExp(source, flags)
RegExp(source, flags) == [source |-> source, flags |-> flags]
\* The pattern of a source, for the sources made of characters, escaped
\* characters of Special, ".", "^" and "$": a backslash makes the character
\* after it a literal; unescaped, "." is any character but a line end, "^"
\* the start and "$" the end of the input.  A backslash at the end is a
\* syntax error.
RECURSIVE Compile(_)
Compile(source) ==
    IF source = <<>> THEN <<>>
    ELSE IF Head(source) = "\\"
         THEN IF Len(source) = 1 THEN <<[k |-> "error"]>>
              ELSE <<[k |-> "char", c |-> source[2]]>> \o Compile(SubSeq(source, 3, Len(source)))
         ELSE <<CASE Head(source) = "." -> [k |-> "any"]
                  [] Head(source) = "^" -> [k |-> "start"]
                  [] Head(source) = "$" -> [k |-> "end"]
                  [] OTHER -> [k |-> "char", c |-> Head(source)]>>
              \o Compile(Tail(source))
\* Canonicalize of the flag "i": toUpperCase of the character
Lower == <<"a", "b", "l", "n", "u">>
Upper == <<"A", "B", "L", "N", "U">>
Canonicalize(c) == IF IndexOf(Lower, c, 1) = 0 THEN c ELSE Upper[IndexOf(Lower, c, 1)]
SameChar(c, d, ignoreCase) ==
    IF ignoreCase THEN Canonicalize(c) = Canonicalize(d) ELSE c = d
\* the pattern from its i-th term on matches the input from position p on
RECURSIVE MatchAt(_, _, _, _, _)
MatchAt(pattern, i, input, p, ignoreCase) ==
    IF i > Len(pattern) THEN TRUE
    ELSE CASE pattern[i].k = "char" ->
                /\ p <= Len(input) /\ SameChar(input[p], pattern[i].c, ignoreCase)
                /\ MatchAt(pattern, i + 1, input, p + 1, ignoreCase)
           [] pattern[i].k = "any" ->
                /\ p <= Len(input) /\ input[p] # "\n"
                /\ MatchAt(pattern, i + 1, input, p + 1, ignoreCase)
           [] pattern[i].k = "start" -> p = 1 /\ MatchAt(pattern, i + 1, input, p, ignoreCase)
           [] pattern[i].k = "end" ->
                p = Len(input) + 1 /\ MatchAt(pattern, i + 1, input, p, ignoreCase)
           [] OTHER -> FALSE
\* regexp.test(x): the pattern matches String(x) from some position on
RegExpTest(regexp, x) ==
    \E p \in 1 .. Len(StringOf(x)) + 1 :
        MatchAt(Compile(regexp.source), 1, StringOf(x), p, regexp.flags = "i")

\* ---------------------------------------------------------- filter trees
NullQuery == [operation |-> "null"]
DataFilter(query) == [query |-> query]
any == DataFilter(NullQuery)
equals(key, value) == DataFilter([operation |-> "eq", key |-> key, value |-> value])
notEquals(key, value) == DataFilter([operation |-> "ne", key |-> key, value |-> value])
\* a variant that lists the children in the opposite order
andReversed(args) ==
    DataFilter([operation |-> "and",
                children |-> [i \in DOMAIN args |-> args[Len(args) + 1 - i].query]])
and(args) == DataFilter([operation |-> "and", children |-> [i \in DOMAIN args |-> args[i].query]])
or(args) == DataFilter([operation |-> "or", children |-> [i \in DOMAIN args |-> args[i].query]])
not(arg) == DataFilter([operation |-> "not", child |-> arg.query])
greaterThan(key, value) == DataFilter([operation |-> "gt", key |-> key, value |-> value])
greaterOrEquals(key, value) == DataFilter([operation |-> "gte", key |-> key, value |-> value])
lessThan(key, value) == DataFilter([operation |-> "lt", key |-> key, value |-> value])
\* a variant that builds the strict comparison
lessOrEqualsStrict(key, value) == DataFilter([operation |-> "lt", key |-> key, value |-> value])
lessOrEquals(key, value) == DataFilter([operation |-> "lte", key |-> key, value |-> value])
isNull(key) == DataFilter([operation |-> "exists", key |-> key, exists |-> FALSE])
isNotNull(key) == DataFilter([operation |-> "exists", key |-> key, exists |-> TRUE])
Flags(ignoreCase) == IF ignoreCase THEN "i" ELSE ""
startsWith(key, value, ignoreCase) ==
    DataFilter([operation |-> "regex", key |-> key,
                regexp |-> RegExp(<<"^">> \o escapeRegExp(value), Flags(ignoreCase))])
endsWith(key, value, ignoreCase) ==
    DataFilter([operation |-> "regex", key |-> key,
                regexp |-> RegExp(escapeRegExp(value) \o <<"$">>, Flags(ignoreCase))])
contains(key, value, ignoreCase) ==
    DataFilter([operation |-> "regex", key |-> key,
                regexp |-> RegExp(escapeRegExp(value), Flags(ignoreCase))])

\* ---- filters as objects: application code holds DataFilter objects, each
\* ---- with the field query, null (address 0) or a reference to a node
\* ---- object; the children of an "and" / "or" node and the child of a "not"
\* ---- node are what the builder put there: the query fields of its arguments
NoFilters == [objs |-> <<>>, nodes |-> <<>>]
\* new DataFilter(query): this.query = query || null.  F: the objects so far;
\* query: the node the builder made, NullQuery for null
NewDataFilter(F, query) ==
    IF query = NullQuery THEN [F EXCEPT !.objs = Append(@, [query |-> 0])]
    ELSE [objs |-> Append(F.objs, [query |-> Len(F.nodes) + 1]),
          nodes |-> Append(F.nodes, query)]
\* the DataFilter objects at the positions args
Arguments(F, args) == [i \in DOMAIN args |-> F.objs[args[i]]]
\* a variant of and that, given an "and" filter first and a filter that is
\* no combination second, adds the second to the children of the first
IsLeaf(F, a) == a = 0 \/ F.nodes[a].operation \notin {"and", "or", "not"}
andFlattening(F, args) ==
    IF Len(args) = 2 /\ F.objs[args[1]].query # 0
       /\ F.nodes[F.objs[args[1]].query].operation = "and"
       /\ IsLeaf(F, F.objs[args[2]].query)
    THEN [objs |-> Append(F.objs, F.objs[args[1]]),
          nodes |-> [F.nodes EXCEPT ![F.objs[args[1]].query].children =
                        Append(@, F.objs[args[2]].query)]]
    ELSE NewDataFilter(F, and(Arguments(F, args)).query)
\* DataFilter.and(...args), DataFilter.or(...args), DataFilter.not(arg) of
\* filters the caller holds
andOf(F, args) == NewDataFilter(F, and(Arguments(F, args)).query)
orOf(F, args) == NewDataFilter(F, or(Arguments(F, args)).query)
notOf(F, arg) == NewDataFilter(F, not(F.objs[arg]).query)
\* the tree a node reference denotes: what a driver given it reads
RECURSIVE Tree(_, _)
Tree(F, a) ==
    IF a = 0 THEN NullQuery
    ELSE CASE F.nodes[a].operation \in {"and", "or"} ->
                [operation |-> F.nodes[a].operation,
                 children |-> [i \in DOMAIN F.nodes[a].children |->
                                  Tree(F, F.nodes[a].children[i])]]
           [] F.nodes[a].operation = "not" ->
                [operation |-> "not", child |-> Tree(F, F.nodes[a].child)]
           [] OTHER -> F.nodes[a]
\* the filter object at position i, as an operation is given it
Held(F, i) == DataFilter(Tree(F, F.objs[i].query))

\* ---- the relational operators of JavaScript on the modelled primitives
\* ToNumber: null is 0, a boolean 0 or 1; undefined and the strings "dummy-n"
\* are NaN
IsNaN(x) == x.t \notin {"number", "null", "boolean"}
ToNumber(x) == IF x.t = "null" THEN 0 ELSE x.v
BothStrings(x, y) == x.t = "string" /\ y.t = "string"
\* x < y: two strings by code units ("dummy-1" < "dummy-2"), anything else by
\* ToNumber, false when either side is NaN
JsLess(x, y) ==
    IF BothStrings(x, y) THEN x.v < y.v
    ELSE ~IsNaN(x) /\ ~IsNaN(y) /\ ToNumber(x) < ToNumber(y)
JsGreater(x, y) == JsLess(y, x)
\* x <= y: false when either side is NaN, otherwise not (y < x)
JsLessOrEqual(x, y) ==
    IF BothStrings(x, y) THEN x.v <= y.v
    ELSE ~IsNaN(x) /\ ~IsNaN(y) /\ ToNumber(x) <= ToNumber(y)
JsGreaterOrEqual(x, y) == JsLessOrEqual(y, x)

\* test-driver.ts matchesFilter
RECURSIVE matchesFilter(_, _)
matchesFilter(row, filter) ==
    CASE filter.operation = "null" -> TRUE
      [] filter.operation = "and" ->
           \A i \in DOMAIN filter.children : matchesFilter(row, filter.children[i])
      [] filter.operation = "or" ->
           \E i \in DOMAIN filter.children : matchesFilter(row, filter.children[i])
      [] filter.operation = "not" -> ~matchesFilter(row, filter.child)
      [] filter.operation = "exists" ->
           IF filter.exists
           THEN Get(row, filter.key).t \notin {"null", "undefined"}
           ELSE Get(row, filter.key).t \in {"null", "undefined"}
      [] filter.operation = "regex" -> RegExpTest(filter.regexp, Get(row, filter.key))
      [] filter.operation = "eq" -> Get(row, filter.key) = filter.value
      [] filter.operation = "ne" -> Get(row, filter.key) # filter.value
      [] filter.operation = "gt" -> JsGreater(Get(row, filter.key), filter.value)
      [] filter.operation = "lt" -> JsLess(Get(row, filter.key), filter.value)
      [] filter.operation = "gte" -> JsGreaterOrEqual(Get(row, filter.key), filter.value)
      [] filter.operation = "lte" -> JsLessOrEqual(Get(row, filter.key), filter.value)
      [] OTHER -> FALSE

\* ------------------------------------------------------------ TestDriver
\* a variant that assigns the amount
PlusAssignSet(x, inc) == Num(inc)
\* d[prop] += inc
PlusAssign(x, inc) == IF x.t = "null" THEN Num(inc) ELSE Num(x.v + inc)

Assign(d, key, val) == [k \in DOMAIN d \cup {key} |-> IF k = key THEN val ELSE d[k]]

\* a variant that stops after the first key
AssignFirst(d, updated, keys) ==
    IF keys = {} THEN d
    ELSE Assign(d, CHOOSE k \in keys : \A j \in keys : IndexOf(FieldOrder, k, 1) <= IndexOf(FieldOrder, j, 1),
                updated[CHOOSE k \in keys : \A j \in keys : IndexOf(FieldOrder, k, 1) <= IndexOf(FieldOrder, j, 1)])
\* for (let key of Object.keys(updated)) d[key] = updated[key]
RECURSIVE AssignAll(_, _, _)
AssignAll(d, updated, keys) ==
    IF keys = {} THEN d
    ELSE LET key == CHOOSE k \in keys : TRUE
         IN AssignAll(Assign(d, key, updated[key]), updated, keys \ {key})

\* test-driver.ts findByKey: filteredData[0] || null
drvFindByKey(tbl, keyName, keyValue) ==
    LET hits == SelectSeq(tbl, LAMBDA d : Get(d, keyName) = keyValue)
    IN IF hits = <<>> THEN [found |-> FALSE, row |-> EmptyObj]
       ELSE [found |-> TRUE, row |-> hits[1]]

\* test-driver.ts insert
drvInsert(tbl, row) == Append(tbl, row)

\* test-driver.ts update: every row with the key value gets d[key] = updated[key]
drvUpdate(tbl, keyName, keyValue, updated) ==
    [i \in DOMAIN tbl |->
        IF Get(tbl[i], keyName) = keyValue
        THEN AssignAll(tbl[i], updated, DOMAIN updated)
        ELSE tbl[i]]

\* test-driver.ts updateMany: set / inc / plain value, per key
ApplyUpdate(d, key, u) ==
    CASE u.t = "set" -> Assign(d, key, u.v)
      [] u.t = "inc" -> Assign(d, key, PlusAssign(Get(d, key), u.v))
      [] OTHER -> Assign(d, key, u)

RECURSIVE ApplyAll(_, _, _)
ApplyAll(d, updated, keys) ==
    IF keys = {} THEN d
    ELSE LET key == CHOOSE k \in keys : TRUE
         IN ApplyAll(ApplyUpdate(d, key, updated[key]), updated, keys \ {key})

\* a variant that updates every row of the table
drvUpdateManyEvery(tbl, filter, updated) ==
    [table |-> [i \in DOMAIN tbl |-> ApplyAll(tbl[i], updated, DOMAIN updated)],
     affected |-> Len(SelectSeq(tbl, LAMBDA d : matchesFilter(d, filter)))]
drvUpdateMany(tbl, filter, updated) ==
    [table |-> [i \in DOMAIN tbl |->
                   IF matchesFilter(tbl[i], filter)
                   THEN ApplyAll(tbl[i], updated, DOMAIN updated)
                   ELSE tbl[i]],
     affected |-> Len(SelectSeq(tbl, LAMBDA d : matchesFilter(d, filter)))]

\* a variant that reports a deletion whatever it found
drvDeleteAlwaysTrue(tbl, keyName, keyValue) ==
    [table |-> SelectSeq(tbl, LAMBDA d : Get(d, keyName) # keyValue), deleted |-> TRUE]
\* test-driver.ts delete
drvDelete(tbl, keyName, keyValue) ==
    [table |-> SelectSeq(tbl, LAMBDA d : Get(d, keyName) # keyValue),
     deleted |-> Len(SelectSeq(tbl, LAMBDA d : Get(d, keyName) = keyValue)) > 0]

\* test-driver.ts deleteMany
drvDeleteMany(tbl, filter) ==
    [table |-> SelectSeq(tbl, LAMBDA d : ~matchesFilter(d, filter)),
     affected |-> Len(SelectSeq(tbl, LAMBDA d : matchesFilter(d, filter)))]

\* test-driver.ts count
drvCount(tbl, filter) == Len(SelectSeq(tbl, LAMBDA d : matchesFilter(d, filter)))

\* test-driver.ts increment
drvIncrement(tbl, keyName, keyValue, prop, inc) ==
    [i \in DOMAIN tbl |->
        IF Get(tbl[i], keyName) = keyValue
        THEN Assign(tbl[i], prop, PlusAssign(Get(tbl[i], prop), inc))
        ELSE tbl[i]]

\* filteredData.sort(...): a stable sort by the field, "desc" or not
RECURSIVE InsertRow(_, _, _, _)
InsertRow(sorted, d, sortBy, sortDir) ==
    IF sorted = <<>> THEN <<d>>
    ELSE IF (IF sortDir = "desc"
             THEN JsGreater(Get(d, sortBy), Get(Head(sorted), sortBy))
             ELSE JsLess(Get(d, sortBy), Get(Head(sorted), sortBy)))
         THEN <<d>> \o sorted
         ELSE <<Head(sorted)>> \o InsertRow(Tail(sorted), d, sortBy, sortDir)
RECURSIVE SortRows(_, _, _)
SortRows(rows, sortBy, sortDir) ==
    IF rows = <<>> THEN <<>>
    ELSE InsertRow(SortRows(SubSeq(rows, 1, Len(rows) - 1), sortBy, sortDir),
                   rows[Len(rows)], sortBy, sortDir)
\* a variant that keeps one row more
SliceInclusive(rows, from, to) ==
    IF from > to + 1 THEN <<>> ELSE SubSeq(rows, from, IF to < Len(rows) THEN to + 1 ELSE Len(rows))
\* rows from .. to of the list, as far as there are any
Slice(rows, from, to) ==
    IF from > to THEN <<>> ELSE SubSeq(rows, from, IF to < Len(rows) THEN to ELSE Len(rows))
\* new Set(cols)
SetOf(cols) == [keys |-> cols]
\* a variant that hands on every key
ProjectAll(d, projection) == d
\* row[key] = d[key] for the keys with !projection || projection.has(key)
Project(d, projection) ==
    IF projection = Null THEN d
    ELSE [k \in {key \in DOMAIN d : key \in projection.keys} |-> d[k]]
\* The body test-driver.ts find, findStream and findStreamSync share: filter,
\* sort if sortBy, slice(skip) if skip > 0, slice(0, limit) if limit >= 0.
\* The rows handed on are copies holding the values of the projected keys.
drvSelect(tbl, filter, o) ==
    LET filteredData == SelectSeq(tbl, LAMBDA d : matchesFilter(d, filter))
        sorted == IF o.sortBy # "" THEN SortRows(filteredData, o.sortBy, o.sortDir)
                  ELSE filteredData
        skipped == IF o.skip > 0 THEN Slice(sorted, o.skip + 1, Len(sorted)) ELSE sorted
        limited == IF o.limit >= 0 THEN Slice(skipped, 1, o.limit) ELSE skipped
    IN [i \in DOMAIN limited |-> Project(limited[i], o.projection)]
\* OrderBy.nothing() with SelectOptions.default(); OrderBy.asc / desc and
\* setMaxRows / setFirstRow on top of them
NoOptions == [sortBy |-> "", sortDir |-> "", skip |-> -1, limit |-> -1, projection |-> Null]
\* SelectOptions.fetchOnly(cols) on the options
fetchOnly(o, cols) == [o EXCEPT !.projection = SetOf(cols)]
\* test-driver.ts find, called with the default OrderBy.nothing() and
\* SelectOptions: no sort, no skip, no limit, no projection
drvFind(tbl, filter) == drvSelect(tbl, filter, NoOptions)

\* What a stream method of the driver is given after the table name by
\* DataAccessObject.findStream / findStreamSync, in order: filter, sortBy,
\* sortDir, skip, limit, projection, queryExtraOptions, each
ExtraOptions == [t |-> "object", v |-> 0]       \* SelectOptions.queryExtraOptions: {}
Callback == [t |-> "function", v |-> 0]         \* the wrapper around the caller's callback
StreamArgs(filter, o) ==
    <<filter, o.sortBy, o.sortDir, o.skip, o.limit, o.projection, ExtraOptions, Callback>>
\* test-driver.ts findStream / findStreamSync declare, after the table name:
\* filter, sortBy, sortDir, skip, limit, projection, each
EachParam == 7
IsCallable(x) == x.t = "function"
TypeError == 6        \* calling what is not a function
\* The calls of the callback: i when it is started on row i, -i when the
\* promise it returned for row i has settled.
\* await each(row) row after row: started, settled, started, settled ...
AwaitedCalls(n) == [k \in 1 .. 2 * n |-> IF k % 2 = 1 THEN (k + 1) \div 2 ELSE 0 - (k \div 2)]
\* each(row) row after row, no promise awaited
StartedCalls(n) == [k \in 1 .. n |-> k]
\* for (let row of filteredData) { await each(row); }
drvFindStream(rows, each) ==
    IF rows = <<>> THEN [raised |-> 0, rows |-> <<>>, log |-> <<>>]
    ELSE IF IsCallable(each)
         THEN [raised |-> 0, rows |-> rows, log |-> AwaitedCalls(Len(rows))]
         ELSE [raised |-> TypeError, rows |-> <<>>, log |-> <<>>]
\* filteredData.forEach(each): the callback is tested before the first row
drvFindStreamSync(rows, each) ==
    IF IsCallable(each) THEN [raised |-> 0, rows |-> rows, log |-> StartedCalls(Len(rows))]
    ELSE [raised |-> TypeError, rows |-> <<>>, log |-> <<>>]

\* test-driver.ts sum: reduce((prev, row) => prev + row[field], 0)
RECURSIVE SumOf(_, _)
SumOf(rows, field) ==
    IF rows = <<>> THEN 0
    ELSE Get(Head(rows), field).v + SumOf(Tail(rows), field)
drvSum(tbl, filter, field) == SumOf(SelectSeq(tbl, LAMBDA d : matchesFilter(d, filter)), field)

\* ------------------------------------------------------ values by content
\* The content of a value, free of addresses: what deep equality compares.
\* The keys of a plain object are compared as a set.
RECURSIVE Deep(_, _)
Deep(x, h) ==
    IF x.t # "object" THEN x
    ELSE CASE h[x.v].kind = "date" -> [kind |-> "date", time |-> h[x.v].vals[1].v]
           [] h[x.v].kind = "array" ->
                [kind |-> "array",
                 elems |-> [i \in DOMAIN h[x.v].vals |-> Deep(h[x.v].vals[i], h)]]
           [] OTHER ->
                [kind |-> "object",
                 props |-> {<<h[x.v].keys[i], Deep(h[x.v].vals[i], h)>> :
                               i \in DOMAIN h[x.v].keys}]
\* The data fields of an entity or row by content (the tracker excluded)
DeepFields(o, h) == [k \in {f \in DOMAIN o : o[f].t # "dao"} |-> Deep(o[k], h)]
DeepTable(tbl, h) == [i \in DOMAIN tbl |-> DeepFields(tbl[i], h)]

\* ------------------------------------------------------------- the state
VARIABLES
    heap,       \* address -> cell: the arrays, dates and plain objects
    table,      \* TestDriver.data of the "dummy" table: a sequence of rows
    ent,        \* ent[t]: the own properties of entity t (dao.ref)
    orig,       \* orig[t]: dao.original of entity t
    queue,      \* the continuations of insert() / save() awaiting their driver call,
                \* each with the fields its call sent to the driver (sent)
    ev,         \* what the last step did: the driver call made, the result settled
    src,        \* src[t]: how entity t came to be ("new", "loaded"); "stale" once
                \* the table was written after the load by anything but the
                \* entity's own unconditional save()
    wrote,      \* the content of the table as the last driver write call that
                \* matched a row left it
    bud,        \* what the callers may still do: the scope of the run
    sources,    \* DataSource.dataSources: name -> the data source registered under it
    filters     \* the DataFilter objects application code holds (objs) and the
                \* nodes of their trees (nodes), by address: see NewDataFilter
vars == <<heap, table, ent, orig, queue, ev, src, wrote, bud, sources, filters>>

IsLive(t) == DOMAIN ent[t] # {}

NoCall == [method |-> "none", keyValue |-> Null, filter |-> NullQuery, updated |-> EmptyObj]
Call(method, keyValue, filter, updated) ==
    [method |-> method, keyValue |-> keyValue, filter |-> filter, updated |-> updated]

\* save() called without a condition; also the argument of the other operations
NoCondition == [none |-> TRUE]
HasCondition(c) == "query" \in DOMAIN c

\* ev.phase: "app" (application code ran), "invoke" (an operation was called:
\* it settled at once, or made its driver call and is pending), "resume" (the
\* continuation of a pending operation ran and settled it).
\* ev.arg: the condition given to save() (the key given to a findByKey that
\* made no driver call, the ordering and options given to find / findStream /
\* findStreamSync); ev.list: the entities find returned or the stream methods
\* gave to the caller's callback, in order; ev.log: the calls of that callback
\* (see AwaitedCalls); ev.call: the driver call this step
\* made; ev.ncalls: the driver calls the invocation has made so far;
\* ev.raised: the error the driver raised (0: none); ev.ret: the value the
\* driver resolved with (for insert(): the key the driver generated and gave
\* to the callback, if it did); ev.err: the error the caller received.
AppStep ==
    [caller |-> 0, op |-> "none", phase |-> "app", status |-> "none", arg |-> NoCondition,
     val |-> Null, err |-> 0, raised |-> 0, ret |-> Undefined, ncalls |-> 0, call |-> NoCall,
     list |-> <<>>, log |-> <<>>]
Pending(c, op, arg, raised, ret, call) ==
    [AppStep EXCEPT !.caller = c, !.op = op, !.phase = "invoke", !.status = "pending",
                    !.arg = arg, !.raised = raised, !.ret = ret, !.ncalls = 1, !.call = call]
Resolved(c, op, phase, arg, val, ret, ncalls, call) ==
    [AppStep EXCEPT !.caller = c, !.op = op, !.phase = phase, !.status = "ok", !.arg = arg,
                    !.val = val, !.ret = ret, !.ncalls = ncalls, !.call = call]
Rejected(c, op, phase, arg, ex, raised, ncalls, call) ==
    [AppStep EXCEPT !.caller = c, !.op = op, !.phase = phase, !.status = "err", !.arg = arg,
                    !.err = ex, !.raised = raised, !.ncalls = ncalls, !.call = call]

\* ---- cell addresses are renumbered in order of first reach after every
\* ---- step, and unreachable cells are dropped (garbage collection)
FieldVals(o) == [i \in 1 .. Len(SeqOfKeys(o)) |-> o[SeqOfKeys(o)[i]]]
RECURSIVE SetToSeq(_)
SetToSeq(S) ==
    IF S = {} THEN <<>>
    ELSE LET m == CHOOSE x \in S : \A y \in S : x <= y
         IN <<m>> \o SetToSeq(S \ {m})
RECURSIVE Flatten(_)
Flatten(ss) == IF ss = <<>> THEN <<>> ELSE Head(ss) \o Flatten(Tail(ss))
RootSeq(tbl, e, o) ==
    Flatten([i \in DOMAIN tbl |-> FieldVals(tbl[i])])
    \o Flatten([i \in 1 .. Cardinality(Trackers) |->
                   FieldVals(e[SetToSeq(Trackers)[i]]) \o FieldVals(o[SetToSeq(Trackers)[i]])])
RECURSIVE Visit(_, _, _)
Visit(vals, h, seen) ==
    IF vals = <<>> THEN seen
    ELSE IF Head(vals).t = "object" /\ Head(vals).v \notin Range(seen)
         THEN Visit(Tail(vals), h, Visit(h[Head(vals).v].vals, h, Append(seen, Head(vals).v)))
         ELSE Visit(Tail(vals), h, seen)
Renamed(x, order) ==
    IF x.t = "object" THEN Ref(IndexOf(order, x.v, 1)) ELSE x
RenamedObj(o, order) == [k \in DOMAIN o |-> Renamed(o[k], order)]
RenamedCell(c, order) == [c EXCEPT !.vals = [i \in DOMAIN c.vals |-> Renamed(c.vals[i], order)]]
NormalizeWith(r, order) ==
    [heap |-> [a \in Addr |-> IF a <= Len(order)
                              THEN RenamedCell(r.heap[order[a]], order) ELSE FreeCell],
     table |-> [i \in DOMAIN r.table |-> RenamedObj(r.table[i], order)],
     ent |-> [t \in Trackers |-> RenamedObj(r.ent[t], order)],
     orig |-> [t \in Trackers |-> RenamedObj(r.orig[t], order)],
     ev |-> [r.ev EXCEPT !.call.updated = RenamedObj(r.ev.call.updated, order),
                         !.call.keyValue = Renamed(r.ev.call.keyValue, order)],
     sources |-> r.sources,
     filters |-> r.filters]
Normalize(r) == NormalizeWith(r, Visit(RootSeq(r.table, r.ent, r.orig), r.heap, <<>>))
CommitNormalized(n) ==
    /\ heap' = n.heap
    /\ table' = n.table
    /\ ent' = n.ent
    /\ orig' = n.orig
    /\ ev' = n.ev
    /\ sources' = n.sources
    /\ filters' = n.filters
Commit(r) == CommitNormalized(Normalize(r))
Cur == [heap |-> heap, table |-> table, ent |-> ent, orig |-> orig, ev |-> AppStep,
        sources |-> sources, filters |-> filters]

\* ---- the scope of a run: how many constructions / loads (life), field
\* ---- mutations (mut) and persistence calls (ops) each entity may make,
\* ---- how many driver calls may fail and how many bulk Finder calls may
\* ---- be made
Scope(life, mut, ops, fail, fops) ==
    [life |-> life, mut |-> mut, ops |-> ops, fail |-> fail, fops |-> fops]
MainScope == Scope(<<1, 0>>, <<2, 0>>, <<2, 0>>, 0, 0)
FailScope == Scope(<<1, 0>>, <<1, 0>>, <<2, 0>>, 1, 0)
RaceScope == Scope(<<1, 1>>, <<1, 1>>, <<1, 2>>, 0, 0)
AllScope == Scope(<<1, 0>>, <<1, 0>>, <<1, 0>>, 1, 1)
KeyedScope == Scope(<<1, 0>>, <<1, 0>>, <<3, 0>>, 0, 0)
SetupScope == Scope(<<1, 0>>, <<1, 0>>, <<1, 0>>, 0, 1)
StreamScope == Scope(<<1, 0>>, <<0, 0>>, <<1, 0>>, 0, 1)
RegistryScope == Scope(<<1, 0>>, <<0, 0>>, <<1, 0>>, 0, 1)
QueryScope == Scope(<<0, 0>>, <<0, 0>>, <<0, 0>>, 0, 1)

LiveScope == Scope(<<1, 0>>, <<1, 0>>, <<2, 0>>, 1, 1)
\* two calls may await the driver at once
ConcurrentScope ==
    [life |-> <<1, 1>>, mut |-> <<2, 1>>, ops |-> <<2, 1>>, fail |-> 0, fops |-> 0,
     pending |-> MaxPending + 1]
\* how many calls may await the driver at once in the run
PendingLimit == IF "pending" \in DOMAIN bud THEN bud.pending ELSE MaxPending

CanFail(raised) == raised # 0 => bud.fail > 0
Spend(t, what, raised) ==
    bud' = [bud EXCEPT ![what][t] = @ - 1,
                       !.fail = IF raised # 0 THEN @ - 1 ELSE @]
SpendFinder(raised) ==
    bud' = [bud EXCEPT !.fops = @ - 1, !.fail = IF raised # 0 THEN @ - 1 ELSE @]

\* src: a write to the table makes the loaded entities stale
Touched(except) ==
    [u \in Trackers |-> IF u \notin except /\ src[u] = "loaded" THEN "stale" ELSE src[u]]
\* A driver write call was made; hit: it raised no error and matched a row
\* (an insert always does).  wrote is then taken anew.
Written(hit, except) ==
    /\ src' = IF hit THEN Touched(except) ELSE src
    /\ wrote' = IF hit THEN DeepTable(table', heap') ELSE wrote

\* The data literals application code assigns; FreeCell stands for null
DataLiterals ==
    {ArrayCell(<<>>), DateCell(0), DateCell(1),
     ObjectCell(<<"a", "b">>, <<Num(0), Num(1)>>), ObjectCell(<<"b", "a">>, <<Num(1), Num(0)>>)}
\* The data a new entity is constructed with
NewLiterals == {FreeCell, ArrayCell(<<>>), ObjectCell(<<"a", "b">>, <<Num(0), Num(1)>>)}
NewValueAt(lit, h, a) ==
    IF lit.kind = "free" THEN [val |-> Null, h |-> h]
    ELSE [val |-> Ref(a), h |-> [h EXCEPT ![a] = lit]]
NewValue(lit, h) == NewValueAt(lit, h, Alloc(h))

\* tests/models/dummy.ts constructor, without the final init()
Dummy(t, data) ==
    [dao |-> DaoVal(t),
     id |-> enforceType(Get(data, "id"), "string"),
     value1 |-> enforceType(Get(data, "value1"), "int"),
     data |-> enforceType(Get(data, "data"), "object")]

\* The tables a run may start from: rows earlier inserts have stored
StoredRow(id, n, a) == [id |-> Str(id), value1 |-> Num(n), data |-> Ref(a)]
InitTables ==
    { [table |-> <<>>, cells |-> <<>>],
      [table |-> <<StoredRow(1, 0, 1)>>, cells |-> <<ArrayCell(<<>>)>>],
      [table |-> <<StoredRow(1, 0, 1), StoredRow(2, 1, 2)>>,
       cells |-> <<ObjectCell(<<"a">>, <<Num(0)>>), DateCell(0)>>] }

InitFrom(tables, scope, registered) ==
    /\ \E it \in tables :
          /\ table = it.table
          /\ heap = [a \in Addr |-> IF a <= Len(it.cells) THEN it.cells[a] ELSE FreeCell]
    /\ ent = [t \in Trackers |-> EmptyObj]
    /\ orig = [t \in Trackers |-> EmptyObj]
    /\ queue = <<>>
    /\ ev = AppStep
    /\ src = [t \in Trackers |-> "none"]
    /\ wrote = DeepTable(table, heap)
    /\ bud = scope
    /\ sources = [n \in registered |-> TestSource]
    /\ filters = NoFilters
\* tests/index.ts: DataSource.set(DataSource.DEFAULT, dataSource) comes first
InitOver(scope, registered) == InitFrom(InitTables, scope, registered)
InitWith(scope) == InitOver(scope, {DEFAULT})
Init == InitWith(MainScope)

Waiting(t) == \E i \in DOMAIN queue : queue[i].t = t

\* ---- the errors the library throws itself (the driver's are DriverErrors)
NotInitialized == 3     \* "You must call init() before using persistence methods."
NoPrimaryKey == 4       \* "Cannot update / delete: A primary key is not set ..."
SourceNotFound == 5     \* "Could not find data source: ..."

\* a variant that takes every tracker for initialized
NotBoundNever(e) == FALSE
\* DataModel.save / delete / insert / increment: this.dao.ref !== this
NotBound(e) == ~e.dao.bound
\* a variant that takes every primary-key name for set
NoPkNever(e) == FALSE
\* DataAccessObject.save / delete / increment: !this.pk
NoPk(e) == e.dao.pk = ""
\* a variant that resolves every name
getDriverAny(s) == 0
\* DataAccessObject.getDriver: the error it throws, 0 when DataSource.get(s)
\* is an entry and its driver is returned
getDriver(s) == IF s \in DOMAIN sources THEN 0 ELSE SourceNotFound

\* The error operation op of entity t throws before it reaches the driver, 0
\* if none (save() resolves the driver only when the diff is not empty: see
\* SaveCallWith)
Early(t, op) ==
    IF NotBound(ent[t]) THEN NotInitialized
    ELSE IF op \in {"save", "delete", "increment"} /\ NoPk(ent[t]) THEN NoPrimaryKey
    ELSE IF op \in {"insert", "delete", "increment"} THEN getDriver(DEFAULT)
    ELSE 0
\* the operation is rejected with that error and nothing else happens
Fails(t, op, arg) ==
    /\ IsLive(t)
    /\ bud.ops[t] > 0
    /\ Early(t, op) # 0
    /\ Spend(t, "ops", 0)
    /\ Commit([Cur EXCEPT !.ev = Rejected(t, op, "invoke", arg, Early(t, op), 0, 0, NoCall)])
    /\ UNCHANGED <<queue, src, wrote>>

\* a variant that keeps the entry a name has
dataSourcesSetOnce(m, name, datSource) ==
    IF name \in DOMAIN m THEN m ELSE Assign(m, name, datSource)
\* DataSource.dataSources.set(name, datSource)
dataSourcesSet(m, name, datSource) == Assign(m, name, datSource)
\* DataSource.dataSources.get(name)
dataSourcesGet(m, name) ==
    IF name \in DOMAIN m THEN [t |-> "source", v |-> m[name]] ELSE Undefined
\* DataSource.set(name, datSource)
Registers(name, datSource) == [name |-> name, source |-> datSource]
DataSourceSetTo(name, datSource) ==
    /\ Commit([Cur EXCEPT !.sources = dataSourcesSet(sources, name, datSource),
                          !.ev = [AppStep EXCEPT !.op = "set",
                                                 !.arg = Registers(name, datSource)]])
    /\ UNCHANGED <<queue, src, wrote, bud>>
\* DataSource.set(name, new DataSource(name, driver)) for a name not yet set
DataSourceSet(name) ==
    /\ name \notin DOMAIN sources
    /\ DataSourceSetTo(name, TestSource)
\* DataSource.get(name)
DataSourceGet(name) ==
    /\ Commit([Cur EXCEPT !.ev = [AppStep EXCEPT !.op = "get", !.arg = [name |-> name],
                                                 !.val = dataSourcesGet(sources, name)]])
    /\ UNCHANGED <<queue, src, wrote, bud>>

\* DataModel.init -> DataAccessObject.changeRef(row): original = copy, ref = row
changeRef(t, row, c, event) ==
    Commit([Cur EXCEPT !.heap = c.h, !.ent[t] = row, !.orig[t] = c.val, !.ev = event])
\* new Dummy(data): the constructor sets the fields and ends with init()
Construct(t, e, h, event) == changeRef(t, e, makeCopyOfBean(e, h), event)

\* application code: new Dummy({id, value1, data})
NewWith(t, id, n, d) ==
    Construct(t, Dummy(t, [id |-> id, value1 |-> n, data |-> d.val]), d.h, AppStep)
New(t, id, n, lit) ==
    /\ ~Waiting(t)
    /\ bud.life[t] > 0
    /\ NewWith(t, id, n, NewValue(lit, heap))
    /\ Spend(t, "life", 0)
    /\ src' = [src EXCEPT ![t] = "new"]
    /\ UNCHANGED <<queue, wrote>>

\* application code: an entity of a model class whose constructor does not
\* call init(): the tracker keeps the ref and the original of its constructor,
\* new DataAccessObject(source, table, primaryKey, {})
NewUninitialized(t, id, n, lit) ==
    /\ ~Waiting(t)
    /\ bud.life[t] > 0
    /\ LET d == NewValue(lit, heap)
       IN Commit([Cur EXCEPT
              !.heap = d.h,
              !.ent[t] = [Dummy(t, [id |-> id, value1 |-> n, data |-> d.val])
                             EXCEPT !.dao = DaoOf(t, PRIMARY_KEY, FALSE)],
              !.orig[t] = EmptyObj])
    /\ Spend(t, "life", 0)
    /\ src' = [src EXCEPT ![t] = "new"]
    /\ UNCHANGED <<queue, wrote>>
\* application code: an entity of a model class declared with the primary-key
\* name "", whose constructor ends with init()
NewKeyless(t, n, lit) ==
    /\ ~Waiting(t)
    /\ bud.life[t] > 0
    /\ LET d == NewValue(lit, heap)
       IN Construct(t, [Dummy(t, [id |-> Null, value1 |-> n, data |-> d.val])
                           EXCEPT !.dao = DaoOf(t, "", TRUE)], d.h, AppStep)
    /\ Spend(t, "life", 0)
    /\ src' = [src EXCEPT ![t] = "new"]
    /\ UNCHANGED <<queue, wrote>>

\* a variant that compares the two values structurally
hasChangedDeep(t, prop) == Deep(Get(orig[t], prop), heap) # Deep(Get(ent[t], prop), heap)
\* DataModel._hasChanged(prop): this.dao.original[prop] !== this.dao.ref[prop],
\* two arrays, dates or objects being the same only when they are one object
hasChanged(t, prop) == Get(orig[t], prop) # Get(ent[t], prop)
\* application code: entity._hasChanged(prop)
HasChanged(t, prop) ==
    /\ IsLive(t)
    /\ Commit([Cur EXCEPT !.ev = [AppStep EXCEPT !.caller = t, !.op = "_hasChanged",
                                                 !.arg = [prop |-> prop],
                                                 !.val = Bool(hasChanged(t, prop))]])
    /\ UNCHANGED <<queue, src, wrote, bud>>

\* application code calls a DataFilter builder; F: the objects afterwards
Builds(name, arg, F) ==
    /\ Len(filters.objs) < MaxFilters
    /\ Commit([Cur EXCEPT !.filters = F,
                          !.ev = [AppStep EXCEPT !.op = name, !.arg = arg]])
    /\ UNCHANGED <<queue, src, wrote, bud>>

\* ---- application code mutating an entity
Mutation(t) ==
    /\ IsLive(t)
    /\ bud.mut[t] > 0
    /\ Spend(t, "mut", 0)
    /\ UNCHANGED <<queue, src, wrote>>

\* entity.id = v, entity.value1 = v
SetField(t, f, v) ==
    /\ Mutation(t)
    /\ ent[t][f] # v
    /\ Commit([Cur EXCEPT !.ent[t][f] = v])

\* entity.data = [] / {...} / new Date(..) / null
SetDataWith(t, d) == Commit([Cur EXCEPT !.heap = d.h, !.ent[t].data = d.val])
SetData(t, lit) ==
    /\ Mutation(t)
    /\ SetDataWith(t, NewValue(lit, heap))

\* ev of a step of application code that changed a nested value in place
InPlace(t, op) == [AppStep EXCEPT !.caller = t, !.op = op]

\* entity.data.push(n), in place
Push(t, n) ==
    /\ Mutation(t)
    /\ getType(ent[t].data, heap) = "array"
    /\ Len(heap[ent[t].data.v].vals) < MaxLen
    /\ Commit([Cur EXCEPT !.heap[ent[t].data.v].vals = Append(@, Num(n)),
                           !.ev = InPlace(t, "push")])

\* entity.data[k] = n, in place
SetKeyAt(t, k, n, cell, i) ==
    IF i > 0
    THEN /\ cell.vals[i] # Num(n)
         /\ Commit([Cur EXCEPT !.heap[ent[t].data.v].vals[i] = Num(n),
                                !.ev = InPlace(t, "setKey")])
    ELSE Commit([Cur EXCEPT !.heap[ent[t].data.v] =
                     ObjectCell(Append(cell.keys, k), Append(cell.vals, Num(n))),
                            !.ev = InPlace(t, "addKey")])
SetKey(t, k, n) ==
    /\ Mutation(t)
    /\ getType(ent[t].data, heap) = "object"
    /\ SetKeyAt(t, k, n, heap[ent[t].data.v], IndexOf(heap[ent[t].data.v].keys, k, 1))

\* ---- DataModel.insert -> DataAccessObject.insert
\* a variant of the callback that drops the key it is given
KeyCallbackIgnored(e, keyVal) == e
\* the callback insert() hands to the driver: this.ref[this.pk] = keyVal
KeyCallback(e, keyVal) == [e EXCEPT ![PRIMARY_KEY] = keyVal]

\* The driver call; raised # 0: the driver rejects with that error.
\* TestDriver.insert pushes the copy and calls back with row[key].
\* the fields of the copy insert() gives to the driver
SentRow(t) == DeepFields(makeCopyOfBean(ent[t], heap).val, makeCopyOfBean(ent[t], heap).h)
InsertCallWith(t, raised, c) ==
    IF raised # 0
    THEN Commit([Cur EXCEPT !.ev = Pending(t, "insert", NoCondition, raised, Undefined,
                                           Call("insert", Null, NullQuery, EmptyObj))])
    ELSE Commit([Cur EXCEPT !.heap = c.h,
                            !.table = drvInsert(table, c.val),
                            !.ent[t] = KeyCallback(ent[t], Get(c.val, PRIMARY_KEY)),
                            !.ev = Pending(t, "insert", NoCondition, 0, Undefined,
                                           Call("insert", Null, NullQuery, c.val))])
InsertCall(t, raised) ==
    /\ IsLive(t)
    /\ Early(t, "insert") = 0 /\ ~NoPk(ent[t])
    /\ Len(queue) < PendingLimit
    /\ Len(table) < MaxRows
    /\ bud.ops[t] > 0 /\ CanFail(raised)
    /\ Spend(t, "ops", raised)
    /\ InsertCallWith(t, raised, makeCopyOfBean(ent[t], heap))
    /\ Written(raised = 0, {})
    /\ queue' = Append(queue, [t |-> t, op |-> "insert", arg |-> NoCondition,
                               ret |-> Undefined, raised |-> raised, ncalls |-> 1,
                               sent |-> SentRow(t)])

\* insert() through a driver that generates the key of a row given without
\* one: the row is stored under the key g and the callback receives g
InsertGeneratedWith(t, g, row, h) ==
    Commit([Cur EXCEPT !.heap = h,
                       !.table = drvInsert(table, row),
                       !.ent[t] = KeyCallback(ent[t], Get(row, PRIMARY_KEY)),
                       !.ev = Pending(t, "insert", NoCondition, 0, Str(g),
                                      Call("insert", Null, NullQuery, row))])
InsertGenerated(t, g) ==
    /\ IsLive(t)
    /\ Early(t, "insert") = 0 /\ ~NoPk(ent[t])
    /\ Get(ent[t], PRIMARY_KEY).t \in {"null", "undefined"}
    /\ Len(queue) < PendingLimit
    /\ Len(table) < MaxRows
    /\ bud.ops[t] > 0
    /\ Spend(t, "ops", 0)
    /\ LET c == makeCopyOfBean(ent[t], heap)
       IN InsertGeneratedWith(t, g, [c.val EXCEPT ![PRIMARY_KEY] = Str(g)], c.h)
    /\ Written(TRUE, {})
    /\ queue' = Append(queue, [t |-> t, op |-> "insert", arg |-> NoCondition,
                               ret |-> Str(g), raised |-> 0, ncalls |-> 1,
                               sent |-> SentRow(t)])

\* a variant that also makes the copy the tracker's ref
ResetOriginalRebinding(t, c, event) ==
    Commit([Cur EXCEPT !.heap = c.h, !.orig[t] = c.val, !.ev = event,
                       !.ent[t].dao.bound = FALSE])
\* this.original = makeCopyOfObject(this.ref), then resolve
ResetOriginal(t, c, event) == Commit([Cur EXCEPT !.heap = c.h, !.orig[t] = c.val, !.ev = event])

\* a variant that resets original before looking at the outcome
InsertResumeResetFirst(p) ==
    ResetOriginal(p.t, makeCopyOfBean(ent[p.t], heap),
                  IF p.raised # 0
                  THEN Rejected(p.t, "insert", "resume", p.arg, p.raised, p.raised, p.ncalls, NoCall)
                  ELSE Resolved(p.t, "insert", "resume", p.arg, Undefined, p.ret, p.ncalls, NoCall))
\* the continuation after the await: catch -> reject(ex), else reset original
InsertResume(p) ==
    IF p.raised # 0
    THEN Commit([Cur EXCEPT !.ev = Rejected(p.t, "insert", "resume", p.arg, p.raised,
                                            p.raised, p.ncalls, NoCall)])
    ELSE ResetOriginal(p.t, makeCopyOfBean(ent[p.t], heap),
                       Resolved(p.t, "insert", "resume", p.arg, Undefined, p.ret,
                                p.ncalls, NoCall))
InsertDone ==
    /\ queue # <<>>
    /\ Head(queue).op = "insert"
    /\ InsertResume(Head(queue))
    /\ queue' = Tail(queue)
    /\ UNCHANGED <<bud, src, wrote>>

\* ---- DataModel.save -> DataAccessObject.save
\* the filter of the conditional update
SaveFilter(t, condition) ==
    and(<<equals(PRIMARY_KEY, ent[t][PRIMARY_KEY]), condition>>).query
\* a variant taking the key from the entity
SaveKeyOfRef(t) == ent[t][PRIMARY_KEY]
\* the key of the unconditional update, of delete and of increment
SaveKey(t) == Get(orig[t], PRIMARY_KEY)

SaveUpdateMany(t, condition, raised, diff, filter, r) ==
    /\ Commit([Cur EXCEPT
           !.table = IF raised # 0 THEN table ELSE r.table,
           !.ev = Pending(t, "save", condition, raised,
                          IF raised # 0 THEN Undefined ELSE Num(r.affected),
                          Call("updateMany", Null, filter, diff))])
    /\ Written(raised = 0 /\ r.affected > 0, {})
    /\ queue' = Append(queue, [t |-> t, op |-> "save", arg |-> condition,
                    ret |-> IF raised # 0 THEN Undefined ELSE Num(r.affected),
                    raised |-> raised, ncalls |-> 1,
                    sent |-> DeepFields(diff, heap)])
SaveUpdate(t, condition, raised, diff, keyValue) ==
    /\ Commit([Cur EXCEPT
           !.table = IF raised # 0 THEN table
                     ELSE drvUpdate(table, PRIMARY_KEY, keyValue, diff),
           !.ev = Pending(t, "save", condition, raised, Undefined,
                          Call("update", keyValue, NullQuery, diff))])
    /\ Written(raised = 0 /\ drvFindByKey(table, PRIMARY_KEY, keyValue).found, {t})
    /\ queue' = Append(queue, [t |-> t, op |-> "save", arg |-> condition,
                    ret |-> Undefined, raised |-> raised, ncalls |-> 1,
                    sent |-> DeepFields(diff, heap)])
SaveCallWith(t, condition, raised, diff) ==
    IF DOMAIN diff = {}
    THEN /\ raised = 0
         /\ Commit([Cur EXCEPT !.ev = Resolved(t, "save", "invoke", condition, Bool(FALSE),
                                               Undefined, 0, NoCall)])
         /\ UNCHANGED <<queue, src, wrote>>
    ELSE IF getDriver(DEFAULT) # 0
    THEN /\ raised = 0
         /\ Commit([Cur EXCEPT !.ev = Rejected(t, "save", "invoke", condition,
                                               getDriver(DEFAULT), 0, 0, NoCall)])
         /\ UNCHANGED <<queue, src, wrote>>
    ELSE /\ Len(queue) < PendingLimit
         /\ IF HasCondition(condition)
            THEN SaveUpdateMany(t, condition, raised, diff, SaveFilter(t, condition),
                                drvUpdateMany(table, SaveFilter(t, condition), diff))
            ELSE SaveUpdate(t, condition, raised, diff, SaveKey(t))
SaveCall(t, condition, raised) ==
    /\ IsLive(t)
    /\ Early(t, "save") = 0
    /\ bud.ops[t] > 0 /\ CanFail(raised)
    /\ Spend(t, "ops", raised)
    /\ SaveCallWith(t, condition, raised, firstLevelObjectDifference(orig[t], ent[t], heap))

\* a variant that ignores the number of affected rows
SaveResultAlways(p) == TRUE
\* a variant that lets a save from an outdated snapshot resolve false
SaveResultUnlessStale(p) == src[p.t] # "stale"
\* a variant that resolves false when no row carries the snapshot key
SaveResultIfStored(p) ==
    IF HasCondition(p.arg) THEN p.ret.v > 0
    ELSE drvFindByKey(table, PRIMARY_KEY, SaveKey(p.t)).found
\* res = affected > 0 with a condition, true without
SaveResult(p) == IF HasCondition(p.arg) THEN p.ret.v > 0 ELSE TRUE
\* a variant that awaits something more, which never settles
SaveResumeAwaits(p) ==
    Commit([Cur EXCEPT !.ev = Pending(p.t, "save", p.arg, p.raised, p.ret, NoCall)])
SaveResume(p) ==
    IF p.raised # 0
    THEN Commit([Cur EXCEPT !.ev = Rejected(p.t, "save", "resume", p.arg, p.raised,
                                            p.raised, p.ncalls, NoCall)])
    ELSE IF SaveResult(p)
         THEN ResetOriginal(p.t, makeCopyOfBean(ent[p.t], heap),
                            Resolved(p.t, "save", "resume", p.arg, Bool(TRUE), p.ret,
                                     p.ncalls, NoCall))
         ELSE Commit([Cur EXCEPT !.ev = Resolved(p.t, "save", "resume", p.arg, Bool(FALSE),
                                                 p.ret, p.ncalls, NoCall)])
SaveDone ==
    /\ queue # <<>>
    /\ Head(queue).op = "save"
    /\ SaveResume(Head(queue))
    /\ queue' = Tail(queue)
    /\ UNCHANGED <<bud, src, wrote>>

\* ---- the operations that return the driver's promise as it is
\* a variant that rejects with an error of its own
PassThroughWrapped(c, op, raised, val, call) ==
    IF raised # 0
    THEN Rejected(c, op, "invoke", NoCondition, 0, raised, 1, call)
    ELSE Resolved(c, op, "invoke", NoCondition, val, val, 1, call)
\* what the caller of such an operation receives
PassThrough(c, op, raised, val, call) ==
    IF raised # 0
    THEN Rejected(c, op, "invoke", NoCondition, raised, raised, 1, call)
    ELSE Resolved(c, op, "invoke", NoCondition, val, val, 1, call)

\* DataModel.delete -> DataAccessObject.delete
DeleteWith(t, raised, call, r) ==
    Commit([Cur EXCEPT !.table = IF raised # 0 THEN table ELSE r.table,
                       !.ev = PassThrough(t, "delete", raised, Bool(r.deleted), call)])
Delete(t, raised) ==
    /\ IsLive(t)
    /\ Early(t, "delete") = 0
    /\ bud.ops[t] > 0 /\ CanFail(raised)
    /\ Spend(t, "ops", raised)
    /\ DeleteWith(t, raised, Call("delete", SaveKey(t), NullQuery, EmptyObj),
                  drvDelete(table, PRIMARY_KEY, SaveKey(t)))
    /\ Written(raised = 0 /\ drvFindByKey(table, PRIMARY_KEY, SaveKey(t)).found, {})
    /\ UNCHANGED queue

\* DataModel.increment -> DataAccessObject.increment
Increment(t, field, inc, raised) ==
    /\ IsLive(t)
    /\ Early(t, "increment") = 0
    /\ bud.ops[t] > 0 /\ CanFail(raised)
    /\ \A i \in DOMAIN table : Get(table[i], field).v + inc \in 0 .. MaxVal
    /\ Spend(t, "ops", raised)
    /\ Commit([Cur EXCEPT
           !.table = IF raised # 0 THEN table
                     ELSE drvIncrement(table, PRIMARY_KEY, SaveKey(t), field, inc),
           !.ev = PassThrough(t, "increment", raised, Undefined,
                              Call("increment", SaveKey(t), NullQuery,
                                   [k \in {field} |-> UpdInc(inc)]))])
    /\ Written(raised = 0 /\ drvFindByKey(table, PRIMARY_KEY, SaveKey(t)).found, {})
    /\ UNCHANGED queue

\* a variant that tests the key against null only
IsNullKeyStrict(keyValue) == keyValue.t = "null"
\* DataAccessObject.findByKey: keyValue === null || keyValue === undefined
IsNullKey(keyValue) == keyValue.t \in {"null", "undefined"}

\* ---- DataFinder.findByKey -> DataAccessObject.findByKey; the row found is
\* ---- parsed by new Dummy(row) into entity t
FindByKeyWith(t, call, r) ==
    IF r.found
    THEN /\ Construct(t, Dummy(t, r.row), heap,
                      Resolved(Finder, "findByKey", "invoke", NoCondition, Bool(TRUE),
                               Bool(TRUE), 1, call))
         /\ src' = [src EXCEPT ![t] = "loaded"]
    ELSE /\ Commit([Cur EXCEPT !.ev = Resolved(Finder, "findByKey", "invoke", NoCondition,
                                               Null, Null, 1, call)])
         /\ UNCHANGED src
\* ev.arg of a findByKey that made no driver call: the key it was given
KeyGiven(keyValue) == [key |-> keyValue]
FindByKey(t, keyValue, raised) ==
    /\ ~Waiting(t)
    /\ bud.life[t] > 0 /\ CanFail(raised)
    /\ Spend(t, "life", raised)
    /\ IF IsNullKey(keyValue)
       THEN /\ raised = 0
            /\ Commit([Cur EXCEPT !.ev = Resolved(Finder, "findByKey", "invoke",
                                                  KeyGiven(keyValue), Null, Undefined, 0, NoCall)])
            /\ UNCHANGED src
       ELSE IF getDriver(DEFAULT) # 0
       THEN /\ raised = 0
            /\ Commit([Cur EXCEPT !.ev = Rejected(Finder, "findByKey", "invoke",
                                                  KeyGiven(keyValue), getDriver(DEFAULT), 0, 0, NoCall)])
            /\ UNCHANGED src
       ELSE IF raised # 0
            THEN /\ Commit([Cur EXCEPT !.ev =
                        PassThrough(Finder, "findByKey", raised, Null,
                                    Call("findByKey", keyValue, NullQuery, EmptyObj))])
                 /\ UNCHANGED src
            ELSE FindByKeyWith(t, Call("findByKey", keyValue, NullQuery, EmptyObj),
                               drvFindByKey(table, PRIMARY_KEY, keyValue))
    /\ UNCHANGED <<queue, wrote>>

\* ---- DataFinder.find / count / sum / update / delete
FinderCall(raised) ==
    /\ getDriver(DEFAULT) = 0
    /\ bud.fops > 0 /\ CanFail(raised)
    /\ SpendFinder(raised)
    /\ UNCHANGED queue

\* this.dataParse(doc) of every row handed on by the driver
ParseAll(rows, h) == [i \in DOMAIN rows |-> DeepFields(Dummy(Finder, rows[i]), h)]

\* find(where, orderBy, options): every row is parsed; the caller receives the list
FindWith(where, o, raised, rows) ==
    Commit([Cur EXCEPT !.ev = [PassThrough(Finder, "find", raised, Num(Len(rows)),
                                           Call("find", Null, where.query, EmptyObj))
                                  EXCEPT !.arg = o,
                                         !.list = IF raised # 0 THEN <<>>
                                                  ELSE ParseAll(rows, heap)]])
Find(where, o, raised) ==
    /\ FinderCall(raised)
    /\ FindWith(where, o, raised, drvSelect(table, where.query, o))
    /\ UNCHANGED <<src, wrote>>

\* application code: (await Dummy.finder.find(where, orderBy, options))[0],
\* the first entity of the list find returns, kept as entity t
FindFirstWith(t, where, o, rows) ==
    /\ rows # <<>>
    /\ Construct(t, Dummy(t, rows[1]), heap,
                 [PassThrough(Finder, "find", 0, Num(Len(rows)),
                              Call("find", Null, where.query, EmptyObj))
                     EXCEPT !.arg = o, !.list = ParseAll(rows, heap)])
FindFirst(t, where, o) ==
    /\ ~Waiting(t)
    /\ getDriver(DEFAULT) = 0
    /\ bud.life[t] > 0
    /\ Spend(t, "life", 0)
    /\ FindFirstWith(t, where, o, drvSelect(table, where.query, o))
    /\ src' = [src EXCEPT ![t] = "loaded"]
    /\ UNCHANGED <<queue, wrote>>

\* findStream / findStreamSync(where, orderBy, options, each): the driver
\* method is given the wrapper as its last argument and hands its rows to what
\* it takes for `each`; the wrapper parses the row for the caller's callback.
\* r: what the driver method did; raised # 0: the driver rejects by itself.
StreamWith(op, where, o, raised, r) ==
    Commit([Cur EXCEPT !.ev = [PassThrough(Finder, op, IF raised # 0 THEN raised ELSE r.raised,
                                           Undefined, Call(op, Null, where.query, EmptyObj))
                                  EXCEPT !.arg = o,
                                         !.list = IF raised # 0 THEN <<>>
                                                  ELSE ParseAll(r.rows, heap),
                                         !.log = IF raised # 0 THEN <<>> ELSE r.log]])
FindStream(where, o, raised) ==
    /\ FinderCall(raised)
    /\ StreamWith("findStream", where, o, raised,
                  drvFindStream(drvSelect(table, where.query, o),
                                StreamArgs(where.query, o)[EachParam]))
    /\ UNCHANGED <<src, wrote>>
FindStreamSync(where, o, raised) ==
    /\ FinderCall(raised)
    /\ StreamWith("findStreamSync", where, o, raised,
                  drvFindStreamSync(drvSelect(table, where.query, o),
                                    StreamArgs(where.query, o)[EachParam]))
    /\ UNCHANGED <<src, wrote>>

\* find, count, sum, update or delete of a Finder whose source does not resolve
FinderFails(op) ==
    /\ getDriver(DEFAULT) # 0
    /\ bud.fops > 0
    /\ SpendFinder(0)
    /\ Commit([Cur EXCEPT !.ev = Rejected(Finder, op, "invoke", NoCondition,
                                          getDriver(DEFAULT), 0, 0, NoCall)])
    /\ UNCHANGED <<queue, src, wrote>>

Count(where, raised) ==
    /\ FinderCall(raised)
    /\ Commit([Cur EXCEPT !.ev = PassThrough(Finder, "count", raised,
                                    Num(drvCount(table, where.query)),
                                    Call("count", Null, where.query, EmptyObj))])
    /\ UNCHANGED <<src, wrote>>

Sum(field, where, raised) ==
    /\ FinderCall(raised)
    /\ Commit([Cur EXCEPT !.ev = PassThrough(Finder, "sum", raised,
                                    Num(drvSum(table, where.query, field)),
                                    Call("sum", Null, where.query, EmptyObj))])
    /\ UNCHANGED <<src, wrote>>

UpdateWith(arg, raised, call, r) ==
    Commit([Cur EXCEPT !.table = IF raised # 0 THEN table ELSE r.table,
                       !.ev = [PassThrough(Finder, "update", raised, Num(r.affected), call)
                                 EXCEPT !.arg = arg]])
\* update(set, where); arg: how the caller wrote the two arguments
UpdateAsked(arg, set, where, raised) ==
    /\ FinderCall(raised)
    /\ \A i \in DOMAIN table : \A k \in DOMAIN set :
           set[k].t = "inc" => Get(table[i], k).v + set[k].v \in 0 .. MaxVal
    /\ UpdateWith(arg, raised, Call("updateMany", Null, where.query, set),
                  drvUpdateMany(table, where.query, set))
    /\ Written(raised = 0 /\ drvCount(table, where.query) > 0, {})
Update(set, where, raised) == UpdateAsked(NoCondition, set, where, raised)

DeleteManyWith(raised, call, r) ==
    Commit([Cur EXCEPT !.table = IF raised # 0 THEN table ELSE r.table,
                       !.ev = PassThrough(Finder, "deleteMany", raised, Num(r.affected), call)])
DeleteMany(where, raised) ==
    /\ FinderCall(raised)
    /\ DeleteManyWith(raised, Call("deleteMany", Null, where.query, EmptyObj),
                      drvDeleteMany(table, where.query))
    /\ Written(raised = 0 /\ drvCount(table, where.query) > 0, {})

\* ---- inputs
IdValues == {Str(k) : k \in KeyIds} \cup {Null}
NumValues == {Num(k) : k \in Numbers}
Outcomes == {0} \cup DriverErrors
Conditions == {any, equals("value1", Num(0))}
UpdateMappings == {[value1 |-> UpdSet(Num(1))], [value1 |-> UpdInc(1)], [value1 |-> Num(0)]}

InsertStep ==
    \/ \E t \in Trackers, id \in IdValues, lit \in NewLiterals : New(t, id, Num(0), lit)
    \/ \E t \in Trackers, raised \in Outcomes : InsertCall(t, raised)
    \/ InsertDone
\* entities loaded by key, their number assigned and saved without a
\* condition, the saves awaiting the driver side by side
ConcurrentValues == {Num(n) : n \in 0 .. 2}
ConcurrentStep ==
    \/ \E t \in Trackers : FindByKey(t, Str(1), 0)
    \/ \E t \in Trackers, v \in ConcurrentValues : SetField(t, "value1", v)
    \/ \E t \in Trackers : SaveCall(t, NoCondition, 0)
    \/ SaveDone
\* every persistence and query operation, on one entity and on the Finder
OperationStep ==
    \/ \E t \in Trackers, id \in IdValues : New(t, id, Num(0), FreeCell)
    \/ \E t \in Trackers, raised \in Outcomes : FindByKey(t, Str(1), raised)
    \/ \E t \in Trackers, v \in NumValues : SetField(t, "value1", v)
    \/ \E t \in Trackers, raised \in Outcomes : InsertCall(t, raised)
    \/ InsertDone
    \/ \E t \in Trackers, c \in {NoCondition} \cup Conditions, raised \in Outcomes :
          SaveCall(t, c, raised)
    \/ SaveDone
    \/ \E t \in Trackers, raised \in Outcomes : Delete(t, raised)
    \/ \E t \in Trackers, raised \in Outcomes : Increment(t, "value1", 1, raised)
\* an entity is asked which of its properties changed
ChangedStep == \E t \in Trackers, prop \in DataFields : HasChanged(t, prop)
RegistryStep ==
    \/ \E name \in SourceNames, d \in DataSources : DataSourceSetTo(name, d)
    \/ \E name \in SourceNames : DataSourceGet(name)
SetupStep ==
    \/ \E name \in SourceNames : DataSourceSet(name)
    \/ \E t \in Trackers, id \in IdValues, lit \in NewLiterals :
          NewUninitialized(t, id, Num(0), lit)
    \/ \E t \in Trackers, lit \in NewLiterals : NewKeyless(t, Num(0), lit)
    \/ \E t \in Trackers, op \in {"insert", "delete", "increment"} : Fails(t, op, NoCondition)
    \/ \E t \in Trackers, c \in {NoCondition} \cup Conditions : Fails(t, "save", c)
    \/ \E op \in {"find", "findStream", "findStreamSync", "count", "sum", "update",
                  "deleteMany"} : FinderFails(op)
GeneratedStep == \E t \in Trackers, g \in KeyIds : InsertGenerated(t, g)
KeyedStep ==
    \/ \E t \in Trackers, raised \in Outcomes : Delete(t, raised)
    \/ \E t \in Trackers, inc \in {-1, 1}, raised \in Outcomes :
          Increment(t, "value1", inc, raised)
SaveStep ==
    \/ \E t \in Trackers, v \in IdValues : SetField(t, "id", v)
    \/ \E t \in Trackers, v \in NumValues : SetField(t, "value1", v)
    \/ \E t \in Trackers, lit \in DataLiterals \cup {FreeCell} : SetData(t, lit)
    \/ \E t \in Trackers : Push(t, 0)
    \/ \E t \in Trackers, k \in Range(ObjKeys), n \in Numbers : SetKey(t, k, n)
    \/ \E t \in Trackers, c \in {NoCondition} \cup Conditions, raised \in Outcomes :
          SaveCall(t, c, raised)
    \/ SaveDone
    \/ \E t \in Trackers, k \in IdValues \cup {Undefined}, raised \in Outcomes :
          FindByKey(t, k, raised)
Orderings == {NoOptions, [NoOptions EXCEPT !.sortBy = "value1", !.sortDir = "asc"],
              [NoOptions EXCEPT !.sortBy = "value1", !.sortDir = "desc"]}
SelectInputs ==
    {[o EXCEPT !.skip = s, !.limit = l] : o \in Orderings, s \in {-1, 1}, l \in {-1, 1}}
StreamStep ==
    \/ \E w \in Conditions, o \in SelectInputs, raised \in Outcomes : Find(w, o, raised)
    \/ \E w \in Conditions, o \in SelectInputs, raised \in Outcomes : FindStream(w, o, raised)
    \/ \E w \in Conditions, o \in SelectInputs, raised \in Outcomes :
          FindStreamSync(w, o, raised)
\* ---- the filters a caller writes, as expressions over the builders
Atom(b, key, value) == [b |-> b, key |-> key, value |-> value]
Nullity(b, key) == [b |-> b, key |-> key]
Both(b, l, r) == [b |-> b, args |-> <<l, r>>]
Neg(x) == [b |-> "not", arg |-> x]
Every == [b |-> "any"]
\* DataFilter.<b>(...) of the expression
RECURSIVE Build(_)
Build(e) ==
    CASE e.b = "any" -> any
      [] e.b = "equals" -> equals(e.key, e.value)
      [] e.b = "notEquals" -> notEquals(e.key, e.value)
      [] e.b = "greaterThan" -> greaterThan(e.key, e.value)
      [] e.b = "greaterOrEquals" -> greaterOrEquals(e.key, e.value)
      [] e.b = "lessThan" -> lessThan(e.key, e.value)
      [] e.b = "lessOrEquals" -> lessOrEquals(e.key, e.value)
      [] e.b = "isNull" -> isNull(e.key)
      [] e.b = "isNotNull" -> isNotNull(e.key)
      [] e.b = "and" -> and([i \in DOMAIN e.args |-> Build(e.args[i])])
      [] e.b = "or" -> or([i \in DOMAIN e.args |-> Build(e.args[i])])
      [] e.b = "not" -> not(Build(e.arg))
      [] e.b = "startsWith" -> startsWith(e.key, e.value, e.ignoreCase)
      [] e.b = "endsWith" -> endsWith(e.key, e.value, e.ignoreCase)
      [] e.b = "contains" -> contains(e.key, e.value, e.ignoreCase)
Comparisons == {"equals", "notEquals", "greaterThan", "greaterOrEquals", "lessThan",
                "lessOrEquals"}
Atoms ==
    {Atom(b, "value1", v) : b \in Comparisons, v \in {Num(0), Num(1), Null}}
    \cup {Atom(b, "id", Str(2)) : b \in Comparisons}
    \cup {Nullity(b, k) : b \in {"isNull", "isNotNull"}, k \in {"id", "value1", "extra"}}
Operands ==
    {Atom("greaterOrEquals", "value1", Num(1)), Atom("lessThan", "value1", Num(2)),
     Atom("equals", "value1", Num(0)), Atom("equals", "id", Str(2)),
     Nullity("isNull", "value1")}
Pairs == {Both(b, l, r) : b \in {"and", "or"}, l \in Operands, r \in Operands}
FilterExprs ==
    {Every} \cup Atoms \cup Pairs \cup {Neg(x) : x \in Atoms \cup Pairs}
    \cup {Both("and", Neg(l), r) : l \in Operands, r \in Operands}
\* the strings of 1 .. n characters of a set, and those of none as well
RECURSIVE Strings(_, _)
Strings(chars, n) ==
    IF n = 0 THEN {}
    ELSE {<<c>> : c \in chars} \cup {Append(w, c) : w \in Strings(chars, n - 1), c \in chars}
Searches == {"startsWith", "endsWith", "contains"}
Search(b, key, value, ignoreCase) ==
    [b |-> b, key |-> key, value |-> value, ignoreCase |-> ignoreCase]
\* the literals searched for: letters, pattern characters, a backslash
Literals == Strings({"a", "n", ".", "$", "\\"}, TextLen)
SearchExprs == {Search(b, "id", l, i) : b \in Searches, l \in Literals, i \in BOOLEAN}
\* the options as given to find, with the expression the filter was built from
Asked(o, e) == [k \in DOMAIN o \cup {"where"} |-> IF k = "where" THEN e ELSE o[k]]
\* OrderBy.nothing / asc / desc on the number, setFirstRow and setMaxRows
Windows ==
    {[o EXCEPT !.skip = s, !.limit = l] : o \in Orderings, s \in -1 .. QueryRows - 1,
                                          l \in -1 .. QueryRows - 1}
Windowed == {Every, Atom("greaterOrEquals", "value1", Num(1))}
QueryStep ==
    \/ \E e \in FilterExprs, raised \in Outcomes : Find(Build(e), Asked(NoOptions, e), raised)
    \/ \E e \in Windowed, o \in Windows, raised \in Outcomes : Find(Build(e), Asked(o, e), raised)
    \/ \E e \in Windowed, cols \in SUBSET DataFields, raised \in Outcomes :
          Find(Build(e), Asked(fetchOnly(NoOptions, cols), e), raised)
\* ---- the mappings a caller writes for update: per field DataUpdate.set(x),
\* ---- DataUpdate.increment(n), or the value itself
Given(how, value) == [how |-> how, value |-> value]
BuildUpdate(m) ==
    [k \in DOMAIN m |->
        CASE m[k].how = "set" -> UpdSet(m[k].value)
          [] m[k].how = "increment" -> UpdInc(m[k].value.v)
          [] OTHER -> m[k].value]
TaggedMappings ==
    {[value1 |-> Given("increment", Num(1))],
     [value1 |-> Given("set", Num(0))],
     [value1 |-> Given("set", Null)],
     [value1 |-> Given("increment", Num(1)), id |-> Given("set", Str(2))],
     [data |-> Given("set", UpdInc(1))]}
\* values placed as they are: scalars, null, and free-form objects that
\* have the keys update and value themselves
PlainValues == {Num(0), Null, UpdInc(1), UpdSet(Num(1))}
PlainMappings ==
    {[data |-> Given("plain", v)] : v \in PlainValues}
    \cup {[value1 |-> Given("plain", Num(0))], [id |-> Given("plain", Str(2))]}
UpdateFilters ==
    {Every, Atom("greaterOrEquals", "value1", Num(1)), Atom("equals", "id", Str(1)),
     Nullity("isNull", "value1")}
AskedUpdate(m, e) == [given |-> m, where |-> e]
UpdateStep ==
    \/ \E m \in TaggedMappings \cup PlainMappings, e \in UpdateFilters, raised \in Outcomes :
          UpdateAsked(AskedUpdate(m, e), BuildUpdate(m), Build(e), raised)
SearchStep ==
    \/ \E e \in SearchExprs, raised \in Outcomes : Find(Build(e), Asked(NoOptions, e), raised)
\* filters built from the filters the caller holds, and given to the
\* operations that take one
LeafExprs ==
    {Every, Atom("equals", "value1", Num(0)), Nullity("isNull", "id"),
     Nullity("isNotNull", "id")}
ArgLists(n) == {<<>>} \cup {<<i>> : i \in 1 .. n} \cup {<<i, j>> : i, j \in 1 .. n}
BuildStep ==
    \/ \E e \in LeafExprs :
          Builds(e.b, [expr |-> e], NewDataFilter(filters, Build(e).query))
    \/ \E args \in ArgLists(Len(filters.objs)) :
          Builds("and", [args |-> args], andOf(filters, args))
    \/ \E args \in ArgLists(Len(filters.objs)) :
          Builds("or", [args |-> args], orOf(filters, args))
    \/ \E i \in DOMAIN filters.objs : Builds("not", [args |-> <<i>>], notOf(filters, i))
UseStep ==
    \/ \E i \in DOMAIN filters.objs : Find(Held(filters, i), NoOptions, 0)
    \/ \E i \in DOMAIN filters.objs : FindStream(Held(filters, i), NoOptions, 0)
    \/ \E i \in DOMAIN filters.objs : Count(Held(filters, i), 0)
    \/ \E i \in DOMAIN filters.objs : Sum("value1", Held(filters, i), 0)
    \/ \E i \in DOMAIN filters.objs : Update([value1 |-> UpdSet(Num(1))], Held(filters, i), 0)
    \/ \E i \in DOMAIN filters.objs : DeleteMany(Held(filters, i), 0)
    \/ \E t \in Trackers : FindByKey(t, Str(1), 0)
    \/ \E t \in Trackers : SetField(t, "value1", Num(1))
    \/ \E t \in Trackers, i \in DOMAIN filters.objs : SaveCall(t, Held(filters, i), 0)
    \/ SaveDone
\* ---- a loaded entity whose data is assigned a free-form object that has the
\* ---- keys update and value itself, saved with or without a condition
ShapedValues == {UpdSet(Num(1)), UpdSet(Null), UpdInc(1)}
ShapedStep ==
    \/ \E t \in Trackers : FindByKey(t, Str(1), 0)
    \/ \E t \in Trackers, v \in ShapedValues : SetField(t, "data", v)
    \/ \E t \in Trackers, v \in NumValues : SetField(t, "value1", v)
    \/ \E t \in Trackers, lit \in DataLiterals : SetData(t, lit)
    \/ \E t \in Trackers, c \in {NoCondition} \cup Conditions : SaveCall(t, c, 0)
    \/ SaveDone
\* ---- entities loaded by key or by find with a projection, changed and
\* ---- saved without a condition, while the rows are written by the other
\* ---- entity, by increment() and by a bulk update
Projections == {{"id", "data"}, {"id", "value1"}}
FrameStep ==
    \/ \E t \in Trackers : FindByKey(t, Str(1), 0)
    \/ \E t \in Trackers, cols \in Projections :
          FindFirst(t, any, fetchOnly(NoOptions, cols))
    \/ \E t \in Trackers, v \in NumValues : SetField(t, "value1", v)
    \/ \E t \in Trackers, lit \in NewLiterals : SetData(t, lit)
    \/ \E t \in Trackers : SaveCall(t, NoCondition, 0)
    \/ SaveDone
    \/ \E t \in Trackers : Increment(t, "value1", 1, 0)
    \/ \E u \in UpdateMappings, w \in Conditions : Update(u, w, 0)
\* ---- an entity constructed and inserted, or loaded by key or by find, then
\* ---- assigned fields and changed in place
AliasStep ==
    \/ \E t \in Trackers, lit \in NewLiterals : New(t, Str(2), Num(0), lit)
    \/ \E t \in Trackers : InsertCall(t, 0)
    \/ InsertDone
    \/ \E t \in Trackers : FindByKey(t, Str(1), 0)
    \/ \E t \in Trackers, cols \in Projections :
          FindFirst(t, any, fetchOnly(NoOptions, cols))
    \/ \E t \in Trackers : FindFirst(t, any, NoOptions)
    \/ \E t \in Trackers, v \in NumValues : SetField(t, "value1", v)
    \/ \E t \in Trackers, lit \in DataLiterals \cup {FreeCell} : SetData(t, lit)
    \/ \E t \in Trackers : Push(t, 0)
    \/ \E t \in Trackers, k \in Range(ObjKeys), n \in Numbers : SetKey(t, k, n)
    \/ \E t \in Trackers : SaveCall(t, NoCondition, 0)
    \/ SaveDone
FinderStep ==
    \/ \E w \in Conditions, raised \in Outcomes : Find(w, NoOptions, raised)
    \/ \E w \in Conditions, raised \in Outcomes : FindStream(w, NoOptions, raised)
    \/ \E w \in Conditions, raised \in Outcomes : FindStreamSync(w, NoOptions, raised)
    \/ \E w \in Conditions, raised \in Outcomes : Count(w, raised)
    \/ \E w \in Conditions, raised \in Outcomes : Sum("value1", w, raised)
    \/ \E u \in UpdateMappings, w \in Conditions, raised \in Outcomes : Update(u, w, raised)
    \/ \E w \in Conditions, raised \in Outcomes : DeleteMany(w, raised)

\* One entity: constructed or loaded, mutated, inserted and saved, the
\* driver raising no error
Next == InsertStep \/ SaveStep
Spec == Init /\ [][Next]_vars

\* The same, one driver call raising an error
InitFail == InitWith(FailScope)
NextFail == InsertStep \/ SaveStep
SpecFail == InitFail /\ [][NextFail]_vars

\* Two entities loaded from the same table, each mutated and saved
InitRace == InitWith(RaceScope)
NextRace == SaveStep
SpecRace == InitRace /\ [][NextRace]_vars

\* Every operation of the tracker and of the Finder
InitAll == InitWith(AllScope)
NextAll == InsertStep \/ KeyedStep \/ SaveStep \/ FinderStep
SpecAll == InitAll /\ [][NextAll]_vars

\* One entity: inserted (the driver generating the key or not), saved,
\* incremented and deleted
InitKeyed == InitWith(KeyedScope)
NextKeyed == InsertStep \/ GeneratedStep \/ KeyedStep \/ SaveStep
SpecKeyed == InitKeyed /\ [][NextKeyed]_vars

\* One stored row and no registered data source at the start; the model
\* classes that leave out init() or the primary key; every operation
InitSetup == InitOver(SetupScope, {}) /\ Len(table) = 1
NextSetup == SetupStep \/ InsertStep \/ KeyedStep \/ SaveStep \/ FinderStep
SpecSetup == InitSetup /\ [][NextSetup]_vars

\* The Finder reading, in bulk and as streams with every ordering and option,
\* a table an entity is inserted into
InitStream == InitWith(StreamScope)
NextStream == StreamStep \/ InsertStep
SpecStream == InitStream /\ [][NextStream]_vars

\* The Finder reading tables of up to QueryRows rows, the number of any and
\* the key of the first of which may be null, with every filter, ordering,
\* window and projection
QueryValues == {Null} \cup {Num(n) : n \in 0 .. 1}
RECURSIVE TablesOf(_)
TablesOf(n) ==
    IF n = 0 THEN {<<>>}
    ELSE TablesOf(n - 1) \cup
         {Append(t, [id |-> i, value1 |-> v, data |-> Null]) :
            t \in {x \in TablesOf(n - 1) : Len(x) = n - 1},
            i \in {Str(n)} \cup (IF n = 1 THEN {Null} ELSE {}), v \in QueryValues}
QueryTables == {[table |-> t, cells |-> <<>>] : t \in TablesOf(QueryRows)} \cup InitTables
InitQuery == InitFrom(QueryTables, QueryScope, {DEFAULT})
NextQuery == QueryStep
SpecQuery == InitQuery /\ [][NextQuery]_vars

\* The Finder searching the string field of one row, or of none, for a literal
TextValues == {Null, Text(<<>>)} \cup {Text(w) : w \in Strings({"a", "A", "b", ".", "$"}, TextLen)}
TextTables ==
    {[table |-> <<>>, cells |-> <<>>]}
    \cup {[table |-> <<[id |-> x, value1 |-> Num(0), data |-> Null]>>, cells |-> <<>>] :
             x \in TextValues}
InitSearch == InitFrom(TextTables, QueryScope, {DEFAULT})
NextSearch == SearchStep
SpecSearch == InitSearch /\ [][NextSearch]_vars

\* The Finder updating the rows of a table in bulk
InitUpdate == InitFrom(QueryTables, QueryScope, {DEFAULT})
NextUpdate == UpdateStep
SpecUpdate == InitUpdate /\ [][NextUpdate]_vars

\* Data sources set and looked up by name, at any time, around the insert of
\* an entity and a call of the Finder; no name is set at the start
InitRegistry == InitOver(RegistryScope, {}) /\ Len(table) = 1
NextRegistry == RegistryStep \/ InsertStep \/ FinderStep
SpecRegistry == InitRegistry /\ [][NextRegistry]_vars

\* Two entities loaded from the row "dummy-1", or one, each saving the same
\* field while other saves still await the driver
InitConcurrent == InitOver(ConcurrentScope, {DEFAULT}) /\ Len(table) >= 1
NextConcurrent == ConcurrentStep
SpecConcurrent == InitConcurrent /\ [][NextConcurrent]_vars

\* Every operation, each driver call settling in the end: the continuation
\* of an insert() or save() that awaits its driver call is eventually run
\* (promise jobs are run in the order the promises settle)
InitLive == InitWith(LiveScope) /\ Len(table) = 1
NextLive == OperationStep \/ FinderStep
\* the driver call of the operation at the head of the queue settles and its
\* continuation takes it from the queue (an InsertDone or a SaveDone step)
Continuation ==
    /\ queue # <<>> /\ Head(queue).op \in {"insert", "save"}
    /\ queue' = Tail(queue)
SpecLive == InitLive /\ [][NextLive]_vars /\ WF_queue(Continuation)
\* ---- a new or loaded entity, mutated, inserted and saved, is asked which of
\* ---- its properties changed
ChangedScope == Scope(<<1, 0>>, <<1, 0>>, <<1, 0>>, 0, 0)
InitChanged == InitWith(ChangedScope)
NextChanged == InsertStep \/ SaveStep \/ ChangedStep
SpecChanged == InitChanged /\ [][NextChanged]_vars

\* ---- a loaded entity given free-form objects, saved with or without a
\* ---- condition
ShapedScope == Scope(<<1, 0>>, <<2, 0>>, <<1, 0>>, 0, 0)
InitShaped == InitWith(ShapedScope)
NextShaped == ShapedStep
SpecShaped == InitShaped /\ [][NextShaped]_vars

\* ---- two entities loaded, also through a projection, and saved without a
\* ---- condition between other writes
FrameScope == Scope(<<1, 1>>, <<1, 1>>, <<1, 1>>, 0, 1)
InitFrame == InitWith(FrameScope) /\ Len(table) = 1
NextFrame == FrameStep
SpecFrame == InitFrame /\ [][NextFrame]_vars

\* ---- one entity, inserted or loaded, then mutated
AliasScope == Scope(<<1, 0>>, <<2, 0>>, <<1, 0>>, 0, 0)
InitAlias == InitWith(AliasScope)
NextAlias == AliasStep
SpecAlias == InitAlias /\ [][NextAlias]_vars

\* ---- filters built and combined
InitBuild == InitWith(QueryScope) /\ Len(table) = 1
NextBuild == BuildStep
SpecBuild == InitBuild /\ [][NextBuild]_vars

\* ---- filters built, combined and used: by one call of the Finder, or by
\* ---- the save(condition) of one loaded entity
FinderScope == Scope(<<0, 0>>, <<0, 0>>, <<0, 0>>, 0, 1)
EntityScope == Scope(<<1, 0>>, <<1, 0>>, <<1, 0>>, 0, 0)
InitFilters == (InitWith(FinderScope) \/ InitWith(EntityScope)) /\ Len(table) = 1
NextFilters == BuildStep \/ UseStep
SpecFilters == InitFilters /\ [][NextFilters]_vars

\* ------------------------------------------------------------- properties
\* The data fields of entity t whose current value is not deep-equal to the
\* value held in the snapshot, and the mapping a save() of them has to send
ChangedFields(t) ==
    {f \in DataFields : Deep(Get(orig[t], f), heap) # Deep(Get(ent[t], f), heap)}
DiffDeep(t) == [f \in ChangedFields(t) |-> Deep(ent[t][f], heap)]
Snapshot(t) == DeepFields(orig[t], heap)

\* What Finder.findByKey(keyValue) returns over a table
FoundIn(tbl, h, keyValue) ==
    IF keyValue.t \in {"null", "undefined"} THEN [found |-> FALSE, fields |-> EmptyObj]
    ELSE IF drvFindByKey(tbl, PRIMARY_KEY, keyValue).found
         THEN [found |-> TRUE,
               fields |-> DeepFields(Dummy(Finder, drvFindByKey(tbl, PRIMARY_KEY, keyValue).row), h)]
         ELSE [found |-> FALSE, fields |-> EmptyObj]
Found(keyValue) == FoundIn(table, heap, keyValue)
\* findByKey of the key of entity t returns an entity deep-equal to t
RoundTrips(t) ==
    /\ Found(ent[t][PRIMARY_KEY]).found
    /\ Found(ent[t][PRIMARY_KEY]).fields = DeepFields(ent[t], heap)
\* The key of entity t is not null and exactly one stored row carries it
KeyIsUnique(t) ==
    /\ ent[t][PRIMARY_KEY].t \notin {"null", "undefined"}
    /\ Cardinality({i \in DOMAIN table : Get(table[i], PRIMARY_KEY) = ent[t][PRIMARY_KEY]}) = 1

SaveInvoked == ev.op = "save" /\ ev.phase = "invoke"
SaveResumed == ev.op = "save" /\ ev.phase = "resume"
\* the operation just invoked is the only one awaiting its driver call, and
\* the next step is its continuation
AwaitedStep(op) ==
    /\ ev.op = op /\ ev.phase = "invoke" /\ ev.status = "pending"
    /\ Len(queue) = 1
    /\ ev'.op = op /\ ev'.phase = "resume"

\* C1: an unconditional save() whose diff is not empty makes exactly one
\* driver call, an update, and the mapping it passes has exactly the data
\* fields whose value is not deep-equal to the snapshot's, each with the
\* entity's current value.
C1_MinimalDiff ==
    /\ (SaveInvoked /\ ~HasCondition(ev.arg) /\ ChangedFields(ev.caller) # {}) =>
          /\ ev.status = "pending"
          /\ ev.ncalls = 1
          /\ ev.call.method = "update"
          /\ DOMAIN ev.call.updated = ChangedFields(ev.caller)
          /\ DeepFields(ev.call.updated, heap) = DiffDeep(ev.caller)
    /\ (SaveResumed /\ ~HasCondition(ev.arg)) => (ev.ncalls = 1 /\ ev.call = NoCall)
C1_Witness ==
    /\ SaveInvoked /\ ~HasCondition(ev.arg) /\ ev.status = "pending"
    /\ ChangedFields(ev.caller) = {"value1", "data"}
    /\ DOMAIN ev.call.updated = {"value1", "data"}
    /\ getType(ent[ev.caller].data, heap) = "object"
    /\ getType(Get(orig[ev.caller], "data"), heap) = "object"

\* C2: save(), with or without a condition, of an entity none of whose
\* fields differs from the snapshot resolves false without a driver call;
\* and right after a successful insert() or save() no field differs.
C2_NothingToSave ==
    /\ (SaveInvoked /\ ChangedFields(ev.caller) = {}) =>
          /\ ev.status = "ok"
          /\ ev.val = Bool(FALSE)
          /\ ev.ncalls = 0
          /\ ev.call = NoCall
    /\ (/\ ev.op \in {"insert", "save"} /\ ev.phase = "resume" /\ ev.status = "ok"
        /\ ev.op = "save" => ev.val = Bool(TRUE)) =>
          ChangedFields(ev.caller) = {}
\* a second save() right after a successful one, the data field holding an
\* object whose keys are in another order than the snapshot's
C2_Witness ==
    /\ SaveInvoked /\ ev.status = "ok" /\ ev.val = Bool(FALSE) /\ ev.ncalls = 0
    /\ ChangedFields(ev.caller) = {}
    /\ getType(ent[ev.caller].data, heap) = "object"
    /\ heap[ent[ev.caller].data.v].keys # heap[orig[ev.caller].data.v].keys
    /\ bud.ops[ev.caller] = 0

\* C3 as stated: after insert() succeeds, findByKey of the entity's key
\* returns an entity whose data fields deep-equal the entity's.
C3_AsStated ==
    [][(AwaitedStep("insert") /\ ev'.status = "ok") => RoundTrips(ev.caller)']_vars
\* C3: after insert() succeeds on an entity whose key is not null and is
\* carried by no other stored row, findByKey of the key returns an entity
\* whose data fields deep-equal the entity's.
C3_InsertRoundTrip ==
    [][(AwaitedStep("insert") /\ ev'.status = "ok" /\ KeyIsUnique(ev.caller)') =>
          RoundTrips(ev.caller)']_vars
C3_Witness ==
    /\ ev.op = "insert" /\ ev.phase = "resume" /\ ev.status = "ok"
    /\ KeyIsUnique(ev.caller)
    /\ RoundTrips(ev.caller)
    /\ getType(ent[ev.caller].data, heap) = "object"
    /\ Len(table) = 2

\* an entity loaded with findByKey, the table not written since but by its
\* own save(), whose unconditional save() is the next to resume
LoadedSaveStep ==
    /\ AwaitedStep("save")
    /\ ~HasCondition(ev.arg)
    /\ src[ev.caller] = "loaded"
    /\ ev'.status = "ok"

\* C4 as stated: after load, mutation and a successful unconditional save(),
\* findByKey of the entity's key returns an entity deep-equal to it.
C4_AsStated ==
    [][LoadedSaveStep => RoundTrips(ev.caller)']_vars
\* C4: the same, for an entity whose key is not null and is carried by no
\* other stored row.
C4_SaveRoundTrip ==
    [][(LoadedSaveStep /\ KeyIsUnique(ev.caller)') => RoundTrips(ev.caller)']_vars
\* the array of a loaded entity was pushed to, and the save round-trips
C4_Witness ==
    /\ SaveResumed /\ ev.status = "ok" /\ ~HasCondition(ev.arg)
    /\ src[ev.caller] = "loaded"
    /\ KeyIsUnique(ev.caller)
    /\ RoundTrips(ev.caller)
    /\ getType(ent[ev.caller].data, heap) = "array"
    /\ Len(heap[ent[ev.caller].data.v].vals) = 1
    /\ Len(table) = 1

\* the primary key of the loaded entity was changed
KeyChangedStep ==
    /\ LoadedSaveStep
    /\ "id" \in ChangedFields(ev.caller)
\* after the step, findByKey of the key the snapshot held before it is null
OldKeyGone == ~FoundIn(table', heap', Get(orig[ev.caller], PRIMARY_KEY)).found

\* C5 as stated: saving a changed primary key updates the row of the old
\* key: afterwards findByKey(old) is null, findByKey(new) the updated entity.
C5_AsStated ==
    [][KeyChangedStep => (OldKeyGone /\ RoundTrips(ev.caller)')]_vars
\* C5: the same, for a new key that is not null and is carried by no other
\* stored row.
C5_KeyChange ==
    [][(KeyChangedStep /\ KeyIsUnique(ev.caller)') =>
          (OldKeyGone /\ RoundTrips(ev.caller)')]_vars
C5_Witness ==
    /\ SaveResumed /\ ev.status = "ok" /\ ~HasCondition(ev.arg)
    /\ src[ev.caller] = "loaded"
    /\ ent[ev.caller][PRIMARY_KEY] = Str(2)
    /\ Len(table) = 1
    /\ ~Found(Str(1)).found
    /\ RoundTrips(ev.caller)

\* C6 as stated: save(condition) with a non-empty diff makes one updateMany
\* call whose filter is (primaryKey == original[primaryKey]) AND condition.
C6_AsStated ==
    (SaveInvoked /\ HasCondition(ev.arg) /\ ev.status = "pending") =>
        /\ ev.call.method = "updateMany"
        /\ ev.call.filter =
              and(<<equals(PRIMARY_KEY, Get(orig[ev.caller], PRIMARY_KEY)), ev.arg>>).query

\* C7: save(condition) with a non-empty diff resolves true exactly when the
\* driver reports at least one affected row; the snapshot is reset to the
\* entity's fields in that case only; when it resolves false the snapshot,
\* and so the diff of a later save, is as before.
C7_ConditionalSave ==
    [][\A t \in Trackers :
          (/\ ev'.caller = t /\ ev'.op = "save" /\ ev'.phase = "resume"
           /\ ev'.status = "ok" /\ HasCondition(ev'.arg)) =>
             /\ ev'.val = Bool(ev'.ret.v >= 1)
             /\ IF ev'.ret.v >= 1
                THEN Snapshot(t)' = DeepFields(ent[t], heap)'
                ELSE /\ Snapshot(t)' = Snapshot(t)
                     /\ DiffDeep(t)' = DiffDeep(t)]_vars
C7_Witness ==
    /\ SaveResumed /\ ev.status = "ok" /\ HasCondition(ev.arg)
    /\ ev.val = Bool(FALSE)
    /\ ev.ret = Num(0)
    /\ Len(table) > 0
    /\ ChangedFields(ev.caller) = {"data"}
C7_WitnessSaved ==
    /\ SaveResumed /\ ev.status = "ok" /\ HasCondition(ev.arg)
    /\ ev.val = Bool(TRUE)
    /\ ChangedFields(ev.caller) = {}

\* C8 as stated: A and B were loaded from the same row, A changed value1 and
\* saved; B, with a change of its own, calls save(condition) with the
\* condition value1 == the value B loaded.  B's save resolves false, B's
\* snapshot is as before, and the table is as A's write left it.
OtherSaved(b) ==
    \E a \in Trackers \ {b} :
        /\ src[a] = "loaded"
        /\ Get(orig[a], PRIMARY_KEY) = Get(orig[b], PRIMARY_KEY)
        /\ Get(orig[a], "value1") # Get(orig[b], "value1")
        /\ Found(Get(orig[b], PRIMARY_KEY)).found
        /\ Found(Get(orig[b], PRIMARY_KEY)).fields["value1"] = Get(orig[a], "value1")
RaceLostStep ==
    /\ AwaitedStep("save")
    /\ src[ev.caller] = "stale"
    /\ ev.arg = equals("value1", Get(orig[ev.caller], "value1"))
    /\ OtherSaved(ev.caller)
C8_AsStated ==
    [][RaceLostStep =>
          /\ ev'.status = "ok" /\ ev'.val = Bool(FALSE)
          /\ Snapshot(ev.caller)' = Snapshot(ev.caller)
          /\ DeepTable(table, heap)' = wrote']_vars

\* C9: when the driver call of insert() or save() fails, the snapshot is as
\* it was before the call, and a retry of save() computes the same diff.
C9_FailedWrite ==
    [][\A t \in Trackers :
          (ev'.caller = t /\ ev'.op \in {"insert", "save"} /\ ev'.raised # 0) =>
             /\ ev'.status = IF ev'.phase = "invoke" THEN "pending" ELSE "err"
             /\ Snapshot(t)' = Snapshot(t)
             /\ DiffDeep(t)' = DiffDeep(t)]_vars
C9_Witness ==
    /\ ev.op = "insert" /\ ev.phase = "resume" /\ ev.status = "err"
    /\ ChangedFields(ev.caller) = {"data"}
    /\ bud.ops[ev.caller] = 1
C9_WitnessSave ==
    /\ SaveResumed /\ ev.status = "err"
    /\ ChangedFields(ev.caller) = {"data"}

\* C10: an error raised by the driver call of insert, save, delete,
\* increment or of a Finder operation reaches the caller as a rejection with
\* that same error, and an invocation makes at most one driver call.
C10_ErrorsPassThrough ==
    /\ ev.ncalls <= 1
    /\ ev.status = "err" => (ev.raised # 0 /\ ev.err = ev.raised)
    /\ (ev.raised # 0 /\ ev.status # "pending") => (ev.status = "err" /\ ev.err = ev.raised)
    /\ (ev.phase = "resume" \/ ev.status = "pending") => ev.ncalls = 1
C10_Witness ==
    /\ ev.caller = Finder /\ ev.op = "update"
    /\ ev.status = "err" /\ ev.err = 2 /\ ev.ncalls = 1
    /\ Len(table) = 2
\* ---- C11
\* The cells (arrays, dates, plain objects) reachable from a first-level object
CellsOf(o, h) == Range(Visit(FieldVals(o), h, <<>>))
SharedCells(t) == CellsOf(ent[t], heap) \cap CellsOf(orig[t], heap)
InPlaceStep(t) == ev'.caller = t /\ ev'.op \in {"push", "setKey", "addKey"}

\* C11: in every state the snapshot `original` of an entity shares no array,
\* date or plain object with the entity; a step that pushes onto the entity's
\* nested array, or adds or changes a key of its nested object, leaves the
\* snapshot as it was, and the field, when it equalled its snapshot before, is
\* among the changed fields (the diff of the next save(), by C1) afterwards.
C11_SnapshotIsolated ==
    /\ [](\A t \in Trackers : SharedCells(t) = {})
    /\ [][\A t \in Trackers :
             InPlaceStep(t) =>
                 /\ Snapshot(t)' = Snapshot(t)
                 /\ "data" \notin ChangedFields(t) => "data" \in ChangedFields(t)']_vars
\* a key was added in place to the nested object of an entity whose snapshot
\* holds an object of its own: the field now differs from the snapshot
C11_Witness ==
    /\ ev.op = "addKey"
    /\ \E t \in Trackers :
          /\ ev.caller = t
          /\ getType(orig[t].data, heap) = "object"
          /\ orig[t].data # ent[t].data
          /\ ChangedFields(t) = {"data"}
C11_WitnessPush ==
    /\ ev.op = "push"
    /\ \E t \in Trackers :
          /\ ev.caller = t
          /\ getType(orig[t].data, heap) = "array"
          /\ ChangedFields(t) = {"data"}

\* ---- C12
InsertInvoked(t) == ev'.caller = t /\ ev'.op = "insert" /\ ev'.phase = "invoke"
InsertSucceeded(e, t) ==
    e.caller = t /\ e.op = "insert" /\ e.phase = "resume" /\ e.status = "ok"
\* what the operation invoked right after a successful insert() has to do
AfterInsert(t) ==
    CASE ev'.op = "save" ->
             /\ ev'.status = "ok" /\ ev'.val = Bool(FALSE) /\ ev'.ncalls = 0
             /\ table' = table
      [] ev'.op \in {"delete", "increment"} ->
             /\ ev'.call.keyValue = Get(ent[t], PRIMARY_KEY)
             /\ ev.ret # Undefined /\ Get(ent[t], PRIMARY_KEY) = ev.ret
                    => ev'.call.keyValue = ev.ret
      [] OTHER -> TRUE

\* C12: the key a driver generates and gives to the callback of insert() is
\* written into the entity; when insert() has succeeded the snapshot deep-equals
\* the entity's fields, that key included; a save() invoked next resolves false
\* without a driver call, and a delete() or increment() invoked next is keyed
\* by the entity's key, the generated one.
C12_InsertResetsOriginal ==
    [][\A t \in Trackers :
          /\ InsertInvoked(t) /\ ev'.ret # Undefined
                => Get(ent'[t], PRIMARY_KEY) = ev'.ret
          /\ InsertSucceeded(ev', t)
                => DeepFields(orig'[t], heap') = DeepFields(ent'[t], heap')
          /\ InsertSucceeded(ev, t) /\ ev'.caller = t /\ ev'.phase = "invoke"
                => AfterInsert(t)]_vars
\* insert() succeeded through a driver that generated the key: the entity and
\* the snapshot hold it
C12_Witness ==
    /\ ev.op = "insert" /\ ev.phase = "resume" /\ ev.status = "ok"
    /\ ev.ret # Undefined
    /\ \E t \in Trackers :
          /\ ev.caller = t
          /\ Get(orig[t], PRIMARY_KEY) = ev.ret
          /\ Get(ent[t], PRIMARY_KEY) = ev.ret
          /\ Found(ev.ret).found
\* delete() removed the row stored under a key the driver had generated
C12_WitnessDelete ==
    /\ ev.op = "delete" /\ ev.status = "ok" /\ ev.val = Bool(TRUE)
    /\ \E t \in Trackers :
          /\ ev.caller = t /\ src[t] = "new"
          /\ ev.call.keyValue = Get(orig[t], PRIMARY_KEY)
          /\ ev.call.keyValue.t = "string"

\* ---- C13
IncrementDone(e, t) == e.caller = t /\ e.op = "increment" /\ e.status = "ok"
\* row i after the field of the rows stored under keyValue changed by inc
Incremented(i, keyValue, field, inc) ==
    IF Get(table[i], PRIMARY_KEY) = keyValue
    THEN [DeepFields(table[i], heap) EXCEPT ![field] = Num(@.v + inc)]
    ELSE DeepFields(table[i], heap)
IncrementedTable(keyValue, field, inc) ==
    [i \in DOMAIN table |-> Incremented(i, keyValue, field, inc)]

\* C13: increment(field, amount) makes one driver call, increment keyed by
\* original[primaryKey]; the entity's fields and the snapshot stay as they
\* were; the field of the rows stored under that key changes by amount and no
\* other stored value changes; a save() invoked next on an entity that had no
\* local change resolves false without a driver call.
C13_IncrementFrame ==
    [][\A t \in Trackers :
          /\ IncrementDone(ev', t) =>
                /\ ev'.ncalls = 1
                /\ ev'.call.method = "increment"
                /\ ev'.call.keyValue = Get(orig[t], PRIMARY_KEY)
                /\ DeepFields(ent'[t], heap') = DeepFields(ent[t], heap)
                /\ DeepFields(orig'[t], heap') = DeepFields(orig[t], heap)
                /\ DeepTable(table', heap') =
                       IncrementedTable(Get(orig[t], PRIMARY_KEY), "value1",
                                        ev'.call.updated.value1.v)
          /\ IncrementDone(ev, t) /\ ev'.caller = t /\ ev'.op = "save"
             /\ ev'.phase = "invoke" /\ ChangedFields(t) = {}
                => /\ ev'.status = "ok" /\ ev'.val = Bool(FALSE) /\ ev'.ncalls = 0
                   /\ table' = table]_vars
\* a negative amount was applied to the stored row of a loaded entity: the
\* row holds less than the entity, which has no change to save
C13_Witness ==
    /\ ev.op = "increment" /\ ev.status = "ok"
    /\ ev.call.updated.value1.v < 0
    /\ \E t \in Trackers :
          /\ ev.caller = t
          /\ ChangedFields(t) = {}
          /\ Found(Get(orig[t], PRIMARY_KEY)).found
          /\ Found(Get(orig[t], PRIMARY_KEY)).fields.value1.v = ent[t].value1.v - 1

\* ---- C14
DeleteDone(e, t) == e.caller = t /\ e.op = "delete" /\ e.status = "ok"
\* the stored rows but those under keyValue, in their order
RowsWithout(keyValue) ==
    DeepTable(SelectSeq(table, LAMBDA d : Get(d, PRIMARY_KEY) # keyValue), heap)

\* C14: delete() makes one driver call, delete keyed by original[primaryKey],
\* whatever the entity's own key field holds; the rows stored under that key
\* are removed and no other; it resolves true exactly when a row was removed;
\* afterwards findByKey of that key finds nothing, and a delete() invoked next
\* resolves false.
C14_DeleteByOriginalKey ==
    [][\A t \in Trackers :
          /\ DeleteDone(ev', t) =>
                /\ ev'.ncalls = 1
                /\ ev'.call.method = "delete"
                /\ ev'.call.keyValue = Get(orig[t], PRIMARY_KEY)
                /\ DeepTable(table', heap') = RowsWithout(Get(orig[t], PRIMARY_KEY))
                /\ ev'.val = Bool(Len(table') < Len(table))
                /\ ~FoundIn(table', heap', Get(orig[t], PRIMARY_KEY)).found
          /\ DeleteDone(ev, t) /\ DeleteDone(ev', t) => ev'.val = Bool(FALSE)]_vars
\* delete() of an entity whose key field was changed locally and not saved
\* removed the row of the snapshot's key and left the row of the local key
C14_Witness ==
    /\ ev.op = "delete" /\ ev.status = "ok" /\ ev.val = Bool(TRUE)
    /\ \E t \in Trackers :
          /\ ev.caller = t
          /\ Get(ent[t], PRIMARY_KEY) # Get(orig[t], PRIMARY_KEY)
          /\ Found(Get(ent[t], PRIMARY_KEY)).found
          /\ ~Found(Get(orig[t], PRIMARY_KEY)).found
\* a second delete() found no row
C14_WitnessSecond ==
    /\ ev.op = "delete" /\ ev.status = "ok" /\ ev.val = Bool(FALSE)
    /\ \E t \in Trackers : ev.caller = t /\ src[t] = "stale" /\ bud.ops[t] = 1

\* ---- C15, C16
TrackerOps == {"save", "delete", "insert", "increment"}
\* entity t invokes op in this step
Invokes(t, ops) == ev'.caller = t /\ ev'.phase = "invoke" /\ ev'.op \in ops
\* the step rejects with error e, calls no driver and leaves the table, the
\* entity, its tracker and the awaiting operations as they were
FailsWith(t, e) ==
    /\ ev'.status = "err" /\ ev'.err = e
    /\ ev'.ncalls = 0 /\ ev'.call = NoCall
    /\ table' = table /\ heap' = heap /\ queue' = queue
    /\ orig'[t] = orig[t] /\ ent'[t] = ent[t]

\* C15: save(), delete(), insert() and increment() of an entity on which
\* init() was never called reject with NotInitialized, make no driver call
\* and leave original and ref of the tracker as they were.
C15_NotInitialized ==
    [][\A t \in Trackers :
          (Invokes(t, TrackerOps) /\ ~ent[t].dao.bound) => FailsWith(t, NotInitialized)]_vars
\* increment() of an entity constructed without init() was rejected; the
\* tracker still has the empty original of its constructor
C15_Witness ==
    /\ ev.op = "increment" /\ ev.status = "err" /\ ev.err = NotInitialized
    /\ \E t \in Trackers :
          /\ ev.caller = t
          /\ ~ent[t].dao.bound
          /\ orig[t] = EmptyObj
          /\ getType(ent[t].data, heap) = "object"

\* C16: save(), delete() and increment() of an initialized entity whose
\* primary-key name is empty reject with NoPrimaryKey, whatever the diff and
\* whether or not the source resolves, make no driver call and leave original
\* as it was.
C16_NoPrimaryKey ==
    [][\A t \in Trackers :
          (Invokes(t, {"save", "delete", "increment"}) /\ ent[t].dao.bound
           /\ ent[t].dao.pk = "") => FailsWith(t, NoPrimaryKey)]_vars
\* save() of a keyless entity without changes, its source not registered:
\* neither "nothing to save" nor SourceNotFound but NoPrimaryKey
C16_Witness ==
    /\ ev.op = "save" /\ ev.status = "err" /\ ev.err = NoPrimaryKey
    /\ DEFAULT \notin DOMAIN sources
    /\ \E t \in Trackers :
          /\ ev.caller = t
          /\ ent[t].dao.pk = ""
          /\ ChangedFields(t) = {}
\* the same with a change to save, the source registered
C16_WitnessDirty ==
    /\ ev.op = "save" /\ ev.status = "err" /\ ev.err = NoPrimaryKey
    /\ DEFAULT \in DOMAIN sources
    /\ \E t \in Trackers : ev.caller = t /\ ChangedFields(t) # {}

\* ---- C17
\* the key a findByKey step was given
KeyOf(e) == IF e.call.method = "findByKey" THEN e.call.keyValue ELSE e.arg.key
\* The operation invoked in this step gets as far as resolving the driver:
\* a tracker operation that passed the checks of C15 and C16 (save() with a
\* diff to send), a findByKey with a key, any other Finder operation
TrackerReaches(t) ==
    /\ Invokes(t, TrackerOps)
    /\ ent[t].dao.bound
    /\ \/ ev'.op = "insert"
       \/ ent[t].dao.pk # "" /\ ev'.op \in {"delete", "increment"}
       \/ ent[t].dao.pk # "" /\ ev'.op = "save" /\ ChangedFields(t) # {}
FinderReaches ==
    /\ ev'.caller = Finder /\ ev'.phase = "invoke"
    /\ ev'.op = "findByKey" => KeyOf(ev').t \notin {"null", "undefined"}
ReachesDriver == FinderReaches \/ \E t \in Trackers : TrackerReaches(t)

\* C17: while no data source is registered under the name of the model, every
\* operation that gets as far as the driver rejects with SourceNotFound, no
\* driver call is made and nothing changes; once DataSource.set has registered
\* the name the operation makes its driver call; SourceNotFound is raised in
\* no other case.
C17_SourceNotFound ==
    [][/\ ReachesDriver =>
             IF DEFAULT \in DOMAIN sources
             THEN ev'.ncalls = 1 /\ ev'.call # NoCall /\ ev'.err # SourceNotFound
             ELSE /\ ev'.status = "err" /\ ev'.err = SourceNotFound
                  /\ ev'.ncalls = 0 /\ ev'.call = NoCall
                  /\ table' = table /\ heap' = heap /\ queue' = queue
                  /\ orig' = orig /\ ent' = ent
       /\ ev'.err = SourceNotFound => (DEFAULT \notin DOMAIN sources /\ ReachesDriver)]_vars
\* insert() was rejected: a data source is registered, under another name
C17_Witness ==
    /\ ev.op = "insert" /\ ev.status = "err" /\ ev.err = SourceNotFound
    /\ DOMAIN sources = {"other"}
    /\ table = <<StoredRow(1, 0, 1)>>
\* a Finder operation reached the driver after the name was registered
C17_WitnessResolved ==
    /\ ev.caller = Finder /\ ev.op = "count" /\ ev.status = "ok" /\ ev.ncalls = 1
    /\ DEFAULT \in DOMAIN sources

\* ---- C18
FirstRowOf(keyValue) ==
    CHOOSE i \in DOMAIN table :
        /\ Get(table[i], PRIMARY_KEY) = keyValue
        /\ \A j \in 1 .. i - 1 : Get(table[j], PRIMARY_KEY) # keyValue
\* the entity findByKey constructs in this step holds the fields of row i
Deserialized(i) ==
    \E t \in Trackers :
        /\ bud'.life[t] < bud.life[t]
        /\ DeepFields(ent'[t], heap') = DeepFields(table[i], heap)
        /\ DeepFields(orig'[t], heap') = DeepFields(table[i], heap)

\* C18: findByKey with a null or undefined key resolves null without
\* resolving the source and without a driver call; with another key, the
\* source registered and the driver raising no error, it makes one driver
\* call and resolves the entity parsed from the first row stored under the
\* key, or null when there is none.
C18_FindByKey ==
    [][ev'.op = "findByKey" =>
          IF KeyOf(ev').t \in {"null", "undefined"}
          THEN /\ ev'.status = "ok" /\ ev'.val = Null
               /\ ev'.ncalls = 0 /\ ev'.call = NoCall
               /\ ent' = ent /\ orig' = orig
          ELSE (DEFAULT \in DOMAIN sources /\ ev'.raised = 0) =>
                  /\ ev'.status = "ok"
                  /\ ev'.ncalls = 1 /\ ev'.call.method = "findByKey"
                  /\ IF \E i \in DOMAIN table : Get(table[i], PRIMARY_KEY) = KeyOf(ev')
                     THEN ev'.val # Null /\ Deserialized(FirstRowOf(KeyOf(ev')))
                     ELSE ev'.val = Null /\ ent' = ent /\ orig' = orig]_vars
\* findByKey(undefined) resolved null while no data source was registered
C18_Witness ==
    /\ ev.op = "findByKey" /\ ev.status = "ok" /\ ev.val = Null
    /\ ev.ncalls = 0
    /\ ev.arg = KeyGiven(Undefined)
    /\ DOMAIN sources = {}
\* the driver was asked and had no row under the key
C18_WitnessNone ==
    /\ ev.op = "findByKey" /\ ev.status = "ok" /\ ev.val = Null
    /\ ev.ncalls = 1
    /\ Len(table) > 0
\* the driver had a row, with a nested array
C18_WitnessFound ==
    /\ ev.op = "findByKey" /\ ev.status = "ok" /\ ev.val # Null
    /\ \E t \in Trackers : src[t] = "loaded" /\ getType(ent[t].data, heap) = "array"

\* ---- C19, C20
StreamSettled(op) == ev.caller = Finder /\ ev.op = op /\ ev.phase = "invoke"
\* the rows the driver selects for the filter, ordering and options of ev
Delivered == drvSelect(table, ev.call.filter, ev.arg)

\* C19: when findStream has settled, the caller's callback has been started
\* once for every row the driver selected, in the driver's order, and each
\* start but the first came after the promise returned for the row before
\* had settled.
C19_AsStated ==
    StreamSettled("findStream") =>
        /\ ev.status = "ok"
        /\ ev.log = AwaitedCalls(Len(Delivered))
        /\ ev.list = ParseAll(Delivered, heap)

\* C20: findStream and findStreamSync give to the callback, one at a time,
\* the entities find returns for the same filter, ordering and options over
\* the same table, in the same order.
C20_AsStated ==
    (StreamSettled("findStream") \/ StreamSettled("findStreamSync")) =>
        /\ ev.status = "ok"
        /\ Len(ev.list) = Len(Delivered)
        /\ \A i \in DOMAIN ev.list : ev.list[i] = DeepFields(Dummy(Finder, Delivered[i]), heap)

\* w is a prefix, a suffix, a substring of s, letters compared as they are or
\* without regard to case
Fold(w, ignoreCase) == [i \in DOMAIN w |-> IF ignoreCase THEN Canonicalize(w[i]) ELSE w[i]]
IsPrefix(w, s, ignoreCase) ==
    Len(w) <= Len(s) /\ Fold(SubSeq(s, 1, Len(w)), ignoreCase) = Fold(w, ignoreCase)
IsSuffix(w, s, ignoreCase) ==
    Len(w) <= Len(s) /\ Fold(SubSeq(s, Len(s) - Len(w) + 1, Len(s)), ignoreCase) = Fold(w, ignoreCase)
IsInfix(w, s, ignoreCase) ==
    \E p \in 1 .. Len(s) + 1 : IsPrefix(w, SubSeq(s, p, Len(s)), ignoreCase)
\* the field of the row is a string
HasString(row, key) == key \in DOMAIN row /\ row[key].t = "text"
\* The predicate a filter expression stands for, on a row: the comparison
\* operators are those of the language, and(a, b) is a AND b, or(a, b) is
\* a OR b, not(a) is NOT a, isNull is "the field is null or absent"
RECURSIVE Holds(_, _)
Holds(row, e) ==
    CASE e.b = "any" -> TRUE
      [] e.b = "equals" -> Get(row, e.key) = e.value
      [] e.b = "notEquals" -> ~(Get(row, e.key) = e.value)
      [] e.b = "greaterThan" -> JsGreater(Get(row, e.key), e.value)
      [] e.b = "greaterOrEquals" -> JsGreaterOrEqual(Get(row, e.key), e.value)
      [] e.b = "lessThan" -> JsLess(Get(row, e.key), e.value)
      [] e.b = "lessOrEquals" -> JsLessOrEqual(Get(row, e.key), e.value)
      [] e.b = "isNull" -> e.key \notin DOMAIN row \/ row[e.key] = Null
      [] e.b = "isNotNull" -> e.key \in DOMAIN row /\ row[e.key] # Null
      [] e.b = "and" -> Holds(row, e.args[1]) /\ Holds(row, e.args[2])
      [] e.b = "or" -> Holds(row, e.args[1]) \/ Holds(row, e.args[2])
      [] e.b = "not" -> ~Holds(row, e.arg)
      [] e.b = "startsWith" -> HasString(row, e.key) /\ IsPrefix(e.value, row[e.key].chars, e.ignoreCase)
      [] e.b = "endsWith" -> HasString(row, e.key) /\ IsSuffix(e.value, row[e.key].chars, e.ignoreCase)
      [] e.b = "contains" -> HasString(row, e.key) /\ IsInfix(e.value, row[e.key].chars, e.ignoreCase)
RowsWhere(e) == SelectSeq(table, LAMBDA d : Holds(d, e))
\* find(Build(e)) with no ordering and the default options has resolved
Asks(o) == [k \in DOMAIN NoOptions |-> IF k \in DOMAIN ev.arg THEN ev.arg[k] ELSE o[k]]
FoundWhere ==
    /\ ev.op = "find" /\ ev.status = "ok"
    /\ "where" \in DOMAIN ev.arg
    /\ Asks(NoOptions) = NoOptions
\* C21: find with a filter built from equals, notEquals, greaterThan,
\* greaterOrEquals, lessThan, lessOrEquals, isNull, isNotNull, and, or, not
\* returns exactly the rows of the table for which the predicate the filter
\* stands for holds, and find(any()) returns every row.
C21_FilterSelects ==
    FoundWhere =>
        /\ ev.list = ParseAll(RowsWhere(ev.arg.where), heap)
        /\ ev.arg.where = Every => Len(ev.list) = Len(table)
\* a comparison with a boundary value, a null field among the rows, and a
\* result that is neither nothing nor everything
C21_Witness ==
    /\ FoundWhere
    /\ ev.arg.where = Atom("lessOrEquals", "value1", Num(0))
    /\ \E i \in DOMAIN table : table[i].value1 = Num(0)
    /\ \E i \in DOMAIN table : table[i].value1 = Null
    /\ Len(ev.list) = Len(table) - 1
C21_WitnessNot ==
    /\ FoundWhere
    /\ ev.arg.where.b = "not" /\ ev.arg.where.arg.b = "or"
    /\ Len(ev.list) \in 1 .. Len(table) - 1
\* find(Build(e)) of a startsWith, endsWith or contains has resolved
Searched == FoundWhere /\ ev.arg.where.b \in Searches
\* C22: startsWith, endsWith and contains(key, literal, ignoreCase) select
\* exactly the rows whose field value has the literal as a prefix, suffix or
\* substring (without regard to case when ignoreCase is set), every
\* character of the literal standing for itself.
C22_AsStated == Searched => ev.list = ParseAll(RowsWhere(ev.arg.where), heap)
\* On the rows whose field is a string the three searches select exactly as
\* stated, pattern characters in the literal included.
SearchOnStrings ==
    (Searched /\ \A i \in DOMAIN table : HasString(table[i], ev.arg.where.key))
        => ev.list = ParseAll(RowsWhere(ev.arg.where), heap)
\* a literal with a pattern character found in, and not found in, a string
SearchFindsDot ==
    /\ Searched /\ ev.arg.where.value = <<".">> /\ Len(ev.list) = 1
SearchMissesDot ==
    /\ Searched /\ ev.arg.where.value = <<".">> /\ Len(table) = 1 /\ Len(ev.list) = 0
    /\ HasString(table[1], "id") /\ table[1].id.chars # <<>>
\* find(Build(e), ordering, options) has resolved
FoundWindow ==
    /\ ev.op = "find" /\ ev.status = "ok" /\ "where" \in DOMAIN ev.arg
    /\ ev.arg.projection = Null
\* the list is in the order of field X, ascending or descending
InOrder(list, X, dir) ==
    \A i, j \in DOMAIN list :
        i < j => IF dir = "desc" THEN ~JsLess(list[i][X], list[j][X])
                 ELSE ~JsLess(list[j][X], list[i][X])
Occurrences(list, x) == Cardinality({i \in DOMAIN list : list[i] = x})
SameRows(l, m) == \A x \in Range(l) \cup Range(m) : Occurrences(l, x) = Occurrences(m, x)
\* what find returns for the same filter and ordering without skip and limit
Unpaginated ==
    ParseAll(drvSelect(table, ev.call.filter, [Asks(NoOptions) EXCEPT !.skip = -1, !.limit = -1]),
             heap)
\* positions s + 1 .. s + l of the list; -1 stands for no skip, no limit
Positions(list, s, l) ==
    SubSeq(list, (IF s < 0 THEN 0 ELSE s) + 1,
           IF l < 0 \/ (IF s < 0 THEN 0 ELSE s) + l > Len(list) THEN Len(list)
           ELSE (IF s < 0 THEN 0 ELSE s) + l)
\* C23: find with an ordering on field X returns the matching rows sorted by
\* X in the requested direction; with skip = s and limit = l it returns
\* exactly the rows at positions s + 1 .. s + l of that unpaginated ordered
\* result, and with the default options (skip = -1, limit = -1) all of it.
C23_OrderedWindow ==
    FoundWindow =>
        /\ SameRows(Unpaginated, ParseAll(RowsWhere(ev.arg.where), heap))
        /\ ev.arg.sortBy # "" => InOrder(Unpaginated, ev.arg.sortBy, ev.arg.sortDir)
        /\ ev.list = Positions(Unpaginated, ev.arg.skip, ev.arg.limit)
        /\ (ev.arg.skip = -1 /\ ev.arg.limit = -1) => ev.list = Unpaginated
\* a window inside a descending result that differs from the table order
C23_Witness ==
    /\ FoundWindow
    /\ ev.arg.sortDir = "desc" /\ ev.arg.skip = 1 /\ ev.arg.limit = 1
    /\ Len(ev.list) = 1 /\ Len(Unpaginated) = 3
    /\ Unpaginated # ParseAll(RowsWhere(ev.arg.where), heap)
    /\ Unpaginated[1] # Unpaginated[2] /\ Unpaginated[2] # Unpaginated[3]
\* update(BuildUpdate(m), Build(e)) has resolved in the step; e is ev'
UpdateDone(e) == e.op = "update" /\ e.status = "ok" /\ "given" \in DOMAIN e.arg
Hows(m) == {m[k].how : k \in DOMAIN m}
\* the row after the operations of the mapping: set(x) stores x, increment(n)
\* adds n (to 0 when the field is null), a value placed as it is is stored
Expected(row, m) ==
    [k \in DOMAIN row \cup DOMAIN m |->
        IF k \notin DOMAIN m THEN row[k]
        ELSE IF m[k].how = "increment" THEN Num(ToNumber(Get(row, k)) + m[k].value.v)
        ELSE m[k].value]
\* C24: Finder.update(mapping, filter) applies every per-field operation of
\* the mapping to exactly the rows matching the filter (increment(d) adds d
\* to the stored field, set(v) stores v), leaves every other row and every
\* unmapped field as it was, and returns the number of matching rows.
C24_UpdateFrame ==
    [][(UpdateDone(ev') /\ "plain" \notin Hows(ev'.arg.given)) =>
          /\ Len(table') = Len(table)
          /\ \A i \in DOMAIN table :
                DeepFields(table[i], heap)' =
                    DeepFields(IF Holds(table[i], ev'.arg.where)
                               THEN Expected(table[i], ev'.arg.given)
                               ELSE table[i], heap)
          /\ ev'.val = Num(Len(RowsWhere(ev'.arg.where)))]_vars
\* two operations applied to one row of three
C24_Witness ==
    /\ UpdateDone(ev)
    /\ ev.arg.given = [value1 |-> Given("increment", Num(1)), id |-> Given("set", Str(2))]
    /\ ev.val = Num(1) /\ Len(table) = 3
    /\ \E i \in DOMAIN table : table[i].value1 = Num(2)
\* the mapping with set(v) for every value v placed as it is
SetForm(m) == [k \in DOMAIN m |-> IF m[k].how = "plain" THEN Given("set", m[k].value) ELSE m[k]]
\* C25: a value placed in an update mapping without a tag has set
\* semantics: for every value v, update({f: v}, filter) leaves the table in
\* the state update({f: set(v)}, filter) leaves it in.
C25_AsStated ==
    [][(UpdateDone(ev') /\ "plain" \in Hows(ev'.arg.given)) =>
          DeepTable(table, heap)' =
              DeepTable(drvUpdateMany(table, ev'.call.filter,
                                      BuildUpdate(SetForm(ev'.arg.given))).table, heap)]_vars
\* The same for the values that are not objects with the keys update and value
PlainScalarIsSet ==
    [][(/\ UpdateDone(ev') /\ "plain" \in Hows(ev'.arg.given)
        /\ \A k \in DOMAIN ev'.arg.given : ev'.arg.given[k].value.t \notin {"set", "inc"}) =>
          DeepTable(table, heap)' =
              DeepTable(drvUpdateMany(table, ev'.call.filter,
                                      BuildUpdate(SetForm(ev'.arg.given))).table, heap)]_vars
\* the entry of a name in the registry: undefined when there is none
Entry(m, n) == IF n \in DOMAIN m THEN [t |-> "source", v |-> m[n]] ELSE Undefined
\* C26: the registry of named sources is last-writer-wins per name: a
\* DataSource.set(n, d) makes d the entry of n and changes the entry of no
\* other name, no other operation changes or removes an entry, and
\* DataSource.get(n) returns the entry of n, undefined if n was never set;
\* so get(n) returns the data source of the most recent set for n.
C26_LastWriterWins ==
    [][/\ \A n \in SourceNames :
            Entry(sources', n) =
                IF ev'.op = "set" /\ ev'.arg.name = n
                THEN [t |-> "source", v |-> ev'.arg.source]
                ELSE Entry(sources, n)
       /\ ev'.op = "get" => ev'.val = Entry(sources, ev'.arg.name)
       /\ DOMAIN sources \subseteq DOMAIN sources']_vars
\* a name set a second time, to another data source, beside another name's
\* entry, and looked up
C26_Witness ==
    /\ ev.op = "get" /\ ev.arg.name = DEFAULT
    /\ ev.val = [t |-> "source", v |-> 2]
    /\ "other" \in DOMAIN sources /\ sources["other"] = 1
    /\ Len(table) = 2
C26_WitnessNone ==
    /\ ev.op = "get" /\ ev.val = Undefined /\ DOMAIN sources # {}
\* an unconditional save() of entity t was called in the step (e is ev') and
\* made its driver call
SaveUpdates(e, t) ==
    /\ e.caller = t /\ e.op = "save" /\ e.phase = "invoke" /\ e.arg = NoCondition
    /\ e.call.method = "update"
\* an unconditional save() settled in the step, after its driver call
SaveSettles(e) == e.op = "save" /\ e.phase = "resume" /\ e.arg = NoCondition
\* the stored value of field f in the rows with the key
StoredOf(tbl, keyValue, f) == {tbl[i][f] : i \in {j \in DOMAIN tbl : tbl[j].id = keyValue}}
\* C27: concurrent unconditional save() calls writing the same field of the
\* same row are neither blocked, ordered nor rejected: a save() called with
\* changed fields makes its driver update at once, whatever else awaits the
\* driver, with the diff against the caller's own `original` (which may be
\* stale); each resolves true; and the stored field holds the value of the
\* driver update executed last (no other step changes the table).
C27_ConcurrentSaves ==
    [][/\ \A t \in Trackers :
            (ev'.caller = t /\ ev'.op = "save" /\ ev'.phase = "invoke"
                /\ ev'.arg = NoCondition /\ ChangedFields(t) # {}) =>
                /\ SaveUpdates(ev', t) /\ ev'.status = "pending"
                /\ ev'.call.keyValue = orig[t].id
                /\ ev'.call.updated = DiffDeep(t)
                /\ Len(queue') = Len(queue) + 1
                /\ \A f \in ChangedFields(t) :
                      StoredOf(table', orig[t].id, f) \subseteq {ent[t][f]}
       /\ SaveSettles(ev') => (ev'.status = "ok" /\ ev'.val = Bool(TRUE))
       /\ ev'.call.method # "update" => table' = table]_vars
\* two saves of the same field of the same row by two entities await the
\* driver at once, the second sent from a stale snapshot; the row holds the
\* value of the second
C27_Witness ==
    /\ Len(queue) = 2 /\ queue[1].t # queue[2].t
    /\ SaveUpdates(ev, queue[2].t)
    /\ src[queue[2].t] = "stale"
    /\ ev.call.keyValue = Str(1) /\ DOMAIN ev.call.updated = {"value1"}
    /\ ent[queue[1].t].value1 # ent[queue[2].t].value1
    /\ StoredOf(table, Str(1), "value1") = {ent[queue[2].t].value1}
\* the same by one entity calling save() twice
C27_WitnessSame ==
    /\ Len(queue) = 2 /\ queue[1].t = queue[2].t
    /\ SaveUpdates(ev, queue[2].t)
    /\ DOMAIN ev.call.updated = {"value1"}
    /\ StoredOf(table, ev.call.keyValue, "value1") = {ent[queue[2].t].value1}
\* both have resolved true
C27_WitnessSettled ==
    /\ queue = <<>> /\ SaveSettles(ev) /\ ev.val = Bool(TRUE)
    /\ src[ev.caller] = "stale" /\ ev.ncalls = 1
    /\ \A t \in Trackers : IsLive(t) /\ bud.ops[t] = 0
\* find(Build(e), no ordering, fetchOnly(cols)) has resolved
FoundProjected ==
    /\ ev.op = "find" /\ ev.status = "ok" /\ "where" \in DOMAIN ev.arg
    /\ ev.arg.projection # Null
\* C28: find with a projection P returns, for every matching row, an entity
\* whose fields in P equal the stored values and whose every other declared
\* field is null.
C28_Projection ==
    FoundProjected =>
        /\ Len(ev.list) = Len(RowsWhere(ev.arg.where))
        /\ \A i \in DOMAIN ev.list :
              /\ DOMAIN ev.list[i] = DataFields
              /\ \A f \in DataFields :
                    ev.list[i][f] = IF f \in ev.arg.projection.keys
                                    THEN Deep(RowsWhere(ev.arg.where)[i][f], heap)
                                    ELSE Null
\* stored values that are not null left out, an object kept
C28_Witness ==
    /\ FoundProjected /\ ev.arg.projection.keys = {"id", "data"}
    /\ Len(ev.list) = 2
    /\ \A i \in DOMAIN table : table[i].value1 # Null /\ table[i].data # Null
    /\ \A i \in DOMAIN ev.list :
          ev.list[i].value1 = Null /\ ev.list[i].data # Null /\ ev.list[i].id # Null
\* the empty projection
C28_WitnessNone ==
    /\ FoundProjected /\ ev.arg.projection.keys = {}
    /\ Len(ev.list) = 1 /\ table[1].id # Null
\* the operations whose promise is the driver's, or is settled by the core
\* before any driver call
Operations ==
    {"insert", "save", "delete", "increment", "findByKey", "find", "findStream",
     "findStreamSync", "count", "sum", "update", "deleteMany"}
Settled(e) == e.status \in {"ok", "err"}
\* C29: every persistence or query operation of the core eventually settles
\* with a result or an error, provided the driver call it makes settles: a
\* call is pending only while the one driver call it made is, the
\* operations that hand on the driver's promise settle with it, and a
\* pending insert() or save() is settled by its continuation.
C29_Settles ==
    /\ [](ev.op \in Operations =>
            \/ Settled(ev)
            \/ /\ ev.status = "pending" /\ ev.op \in {"insert", "save"} /\ ev.ncalls = 1
               /\ queue # <<>> /\ queue[Len(queue)].t = ev.caller)
    /\ [](queue # <<>> => Head(queue).op \in {"insert", "save"})
    /\ (queue # <<>>) ~> (ev.phase = "resume" /\ Settled(ev) /\ ~Waiting(ev.caller))
\* a save() that awaited the driver has settled with a result
C29_Witness ==
    /\ ev.op = "save" /\ ev.phase = "resume" /\ ev.status = "ok" /\ queue = <<>>
\* an insert() with an error, a stream with an error of the driver
C29_WitnessError ==
    /\ ev.op = "insert" /\ ev.phase = "resume" /\ ev.status = "err"
C29_WitnessStream ==
    /\ ev.op = "findStream" /\ ev.status = "err" /\ ev.raised \in DriverErrors

\* a row with the snapshot key of entity t is stored
SnapshotRowExists(t) == drvFindByKey(table, PRIMARY_KEY, SaveKey(t)).found
\* the step is the continuation of an unconditional save() of entity t whose
\* driver update raised no error
UpdateSettles(t) ==
    /\ queue # <<>>
    /\ Head(queue).t = t /\ Head(queue).op = "save"
    /\ ~HasCondition(Head(queue).arg) /\ Head(queue).raised = 0
    /\ queue' = Tail(queue)
\* C30: an unconditional save() with a non-empty diff whose driver update
\* raises no error resolves true and resets the snapshot to the entity's
\* current fields whether or not a row with the snapshot key exists; when
\* there is no such row the call stores nothing, and the next save() without
\* a mutation in between resolves false without a driver call.
C30_SaveWithoutRow ==
    [][\A t \in Trackers :
          /\ (/\ ev'.caller = t /\ ev'.op = "save" /\ ev'.phase = "invoke"
               /\ ~HasCondition(ev'.arg) /\ ChangedFields(t) # {}
               /\ ev'.raised = 0 /\ ~SnapshotRowExists(t)) =>
                 /\ ev'.status = "pending" /\ ev'.call.method = "update"
                 /\ DeepTable(table, heap)' = DeepTable(table, heap)
          /\ UpdateSettles(t) =>
                 /\ ev'.caller = t /\ ev'.op = "save" /\ ev'.phase = "resume"
                 /\ ev'.status = "ok" /\ ev'.val = Bool(TRUE)
                 /\ Snapshot(t)' = DeepFields(ent[t], heap)'
                 /\ DeepTable(table, heap)' = DeepTable(table, heap)
          /\ (/\ ev.caller = t /\ SaveResumed /\ ev.status = "ok" /\ ~HasCondition(ev.arg)
               /\ ev'.caller = t /\ ev'.op = "save" /\ ev'.phase = "invoke") =>
                 /\ ev'.status = "ok" /\ ev'.val = Bool(FALSE) /\ ev'.ncalls = 0
                 /\ DeepTable(table, heap)' = DeepTable(table, heap)]_vars
\* a save() has resolved true although no row carries the snapshot key, the
\* table being as it was and the entity's number not being stored
C30_Witness ==
    /\ SaveResumed /\ ev.status = "ok" /\ ~HasCondition(ev.arg) /\ ev.val = Bool(TRUE)
    /\ ~SnapshotRowExists(ev.caller)
    /\ ChangedFields(ev.caller) = {}
    /\ ent[ev.caller].value1 = Num(1)
    /\ \A i \in DOMAIN table : Get(table[i], "value1") # Num(1)
\* the save() that follows it is a no-op
C30_WitnessNext ==
    /\ SaveInvoked /\ ev.status = "ok" /\ ev.val = Bool(FALSE) /\ ev.ncalls = 0
    /\ ~SnapshotRowExists(ev.caller)
    /\ ent[ev.caller].value1 = Num(1)
    /\ \A i \in DOMAIN table : Get(table[i], "value1") # Num(1)
    /\ bud.ops[ev.caller] = 0 /\ bud.mut[ev.caller] < 2
\* the answer of _hasChanged
Answered(e) == e.op = "_hasChanged"
\* C31 as stated: _hasChanged(prop) returns true exactly when the entity's
\* current value of prop differs from its value at the last snapshot; it
\* returns false for every property right after init() or a successful save().
C31_AsStated ==
    Answered(ev) => ev.val = Bool(ev.arg.prop \in ChangedFields(ev.caller))
\* For a property whose two values are scalars the answer is as stated, and
\* a property that changed is always reported
HasChangedScalar ==
    Answered(ev) =>
       /\ ev.arg.prop \in ChangedFields(ev.caller) => ev.val = Bool(TRUE)
       /\ (/\ getType(Get(orig[ev.caller], ev.arg.prop), heap) \notin {"array", "date", "object"}
           /\ getType(Get(ent[ev.caller], ev.arg.prop), heap) \notin {"array", "date", "object"}) =>
             ev.val = Bool(ev.arg.prop \in ChangedFields(ev.caller))
\* the answer is true for a property that was never touched
HasChangedUntouched ==
    /\ Answered(ev) /\ ev.val = Bool(TRUE) /\ ev.arg.prop = "data"
    /\ ChangedFields(ev.caller) = {}
    /\ src[ev.caller] = "new"
    /\ bud.mut[ev.caller] = 1 /\ bud.ops[ev.caller] = 1
\* the tree of the filter object at position i
TreeOf(F, i) == Tree(F, F.objs[i].query)
\* the step built a filter with the builder named b: one more object is held
Built(b) == ev'.op = b /\ Len(filters'.objs) = Len(filters.objs) + 1
Newest(F) == Len(F.objs)
\* C32: and(e1, ..., en) and or(e1, ..., en) produce a node tagged "and" /
\* "or" whose children are the expressions of e1 ... en, in argument order;
\* not(e) produces a "not" node with the single child e; isNull(k) and
\* isNotNull(k) produce an "exists" node with exists = false / true.
C32_Builders ==
    [][/\ ev'.op \in {"and", "or", "not", "isNull", "isNotNull"} => Built(ev'.op)
       /\ \A b \in {"and", "or"} :
             Built(b) =>
                /\ TreeOf(filters', Newest(filters')) =
                      [operation |-> b,
                       children |-> [i \in DOMAIN ev'.arg.args |->
                                        TreeOf(filters, ev'.arg.args[i])]]
                /\ filters'.nodes[filters'.objs[Newest(filters')].query].children =
                      [i \in DOMAIN ev'.arg.args |-> filters.objs[ev'.arg.args[i]].query]
       /\ Built("not") =>
             /\ TreeOf(filters', Newest(filters')) =
                   [operation |-> "not", child |-> TreeOf(filters, ev'.arg.args[1])]
             /\ filters'.nodes[filters'.objs[Newest(filters')].query].child =
                   filters.objs[ev'.arg.args[1]].query
       /\ \A b \in {"isNull", "isNotNull"} :
             Built(b) =>
                TreeOf(filters', Newest(filters')) =
                   [operation |-> "exists", key |-> ev'.arg.expr.key,
                    exists |-> (b = "isNotNull")]]_vars
\* and(e2, e1) of an equals filter e1 and an isNull filter e2
C32_Witness ==
    /\ ev.op = "and" /\ ev.arg.args = <<2, 1>> /\ Len(filters.objs) = 3
    /\ TreeOf(filters, 3) =
          [operation |-> "and",
           children |-> <<[operation |-> "exists", key |-> "id", exists |-> FALSE],
                          [operation |-> "eq", key |-> "value1", value |-> Num(0)]>>]
\* not(e) of an or filter; isNotNull
C32_WitnessNot ==
    /\ ev.op = "not" /\ ev.arg.args = <<2>> /\ Len(filters.objs) = 3
    /\ filters.objs[2].query # 0
    /\ filters.nodes[filters.objs[2].query].operation = "or"
    /\ TreeOf(filters, 3).child.operation = "or"
C32_WitnessExists ==
    /\ ev.op = "isNotNull"
    /\ TreeOf(filters, Newest(filters)) = [operation |-> "exists", key |-> "id", exists |-> TRUE]
BuilderNames == {"any", "equals", "isNull", "isNotNull", "and", "or", "not"}
FilterUses == {"find", "findStream", "count", "sum", "update", "deleteMany"}
\* C33: a filter is never changed by use: building and / or / not from
\* filters, and passing a filter to find, findStream, count, sum, update,
\* delete or save(condition), leaves every filter object and the tree of
\* every filter as they were; building makes no driver call; and what the
\* driver is given is the tree of a filter the caller holds (for save, its
\* conjunction with the key test).
C33_FiltersUnchanged ==
    [][/\ \A i \in DOMAIN filters.objs :
             /\ i \in DOMAIN filters'.objs
             /\ filters'.objs[i] = filters.objs[i]
             /\ TreeOf(filters', i) = TreeOf(filters, i)
       /\ \A a \in DOMAIN filters.nodes :
             a \in DOMAIN filters'.nodes /\ filters'.nodes[a] = filters.nodes[a]
       /\ ev'.op \in BuilderNames =>
             /\ ev'.ncalls = 0 /\ ev'.call = NoCall
             /\ DeepTable(table, heap)' = DeepTable(table, heap)
       /\ ev'.op \notin BuilderNames => filters' = filters
       /\ (ev'.op \in FilterUses /\ ev'.ncalls = 1) =>
             \E i \in DOMAIN filters.objs : ev'.call.filter = TreeOf(filters, i)
       /\ \A t \in Trackers :
             (/\ ev'.caller = t /\ ev'.op = "save" /\ ev'.phase = "invoke"
              /\ ev'.ncalls = 1) =>
                \E i \in DOMAIN filters.objs :
                   ev'.call.filter =
                      [operation |-> "and",
                       children |-> <<[operation |-> "eq", key |-> PRIMARY_KEY,
                                       value |-> ent[t][PRIMARY_KEY]],
                                      TreeOf(filters, i)>>]]_vars
\* a filter built from two others has been given to update, which changed a row
C33_Witness ==
    /\ ev.op = "update" /\ ev.status = "ok" /\ ev.val = Num(1)
    /\ Len(filters.objs) = 3
    /\ ev.call.filter = TreeOf(filters, 3)
    /\ ev.call.filter.operation = "and"
    /\ Len(ev.call.filter.children) = 2
\* a filter that is the argument of another has been given to save()
C33_WitnessSave ==
    /\ ev.op = "save" /\ ev.status = "pending" /\ HasCondition(ev.arg)
    /\ Len(filters.objs) = 3
    /\ TreeOf(filters, 3).operation = "not"
    /\ ev.arg.query = TreeOf(filters, 2)
    /\ TreeOf(filters, 3).child = TreeOf(filters, 2)
\* a tree none of whose nodes has the absent filter as a child
RECURSIVE WellFormed(_)
WellFormed(q) ==
    CASE q.operation \in {"and", "or"} ->
            \A i \in DOMAIN q.children :
               q.children[i] # NullQuery /\ WellFormed(q.children[i])
      [] q.operation = "not" -> q.child # NullQuery /\ WellFormed(q.child)
      [] OTHER -> TRUE
\* C37 as stated: every filter tree the builders produce is well formed: the
\* children of an "and" / "or" node and the child of a "not" node are
\* operation nodes, the absent filter of any() being a root only; also when
\* any() is an argument of and / or / not or the condition of save().
C37_AsStated ==
    /\ \A i \in DOMAIN filters.objs : WellFormed(TreeOf(filters, i))
    /\ ev.call.method # "none" => WellFormed(ev.call.filter)
\* The trees are well formed as long as any() is no argument of and / or /
\* not and no condition of save()
WellFormedWithoutAny ==
    [][/\ (/\ ev'.op \in {"and", "or", "not"}
           /\ \A i \in DOMAIN filters.objs : WellFormed(TreeOf(filters, i))
           /\ \A k \in DOMAIN ev'.arg.args : filters.objs[ev'.arg.args[k]].query # 0) =>
             \A i \in DOMAIN filters'.objs : WellFormed(TreeOf(filters', i))
       /\ (/\ ev'.call.method # "none"
           /\ \A i \in DOMAIN filters.objs : WellFormed(TreeOf(filters, i))
           /\ ev'.op = "save" => ev'.arg # any) =>
             WellFormed(ev'.call.filter)]_vars
\* save(any()) gives the driver a conjunction with an absent child
SaveAnyIllFormed ==
    /\ ev.op = "save" /\ ev.status = "pending" /\ ev.arg = any
    /\ ev.call.filter.children[2] = NullQuery
    /\ \A i \in DOMAIN filters.objs : WellFormed(TreeOf(filters, i))
\* the tracker of entity t
Tracker(t) == ent[t].dao
\* C34: once an entity is initialized its tracker's ref is the entity, and
\* the tracker's source, table and primary-key name are those given at
\* construction: every step that constructs no new entity in the place of t
\* (insert, save, delete, increment, their continuations, the mutations and
\* the calls of other callers) leaves the tracker of t as it is; an entity
\* findByKey returns is initialized and has the model's three.
C34_TrackerFixed ==
    [][\A t \in Trackers :
          /\ (IsLive(t) /\ bud'.life[t] = bud.life[t]) =>
                (IsLive(t)' /\ Tracker(t)' = Tracker(t))
          /\ (IsLive(t)' /\ bud'.life[t] < bud.life[t]) =>
                /\ Tracker(t)'.v = t
                /\ Tracker(t)'.source = DEFAULT /\ Tracker(t)'.table = TABLE
                /\ Tracker(t)'.pk \in {PRIMARY_KEY, ""}
          /\ (ev'.op = "findByKey" /\ ev'.val = Bool(TRUE) /\ bud'.life[t] < bud.life[t]) =>
                Tracker(t)' = DaoOf(t, PRIMARY_KEY, TRUE)]_vars
\* an initialized entity has been inserted, changed and saved
C34_Witness ==
    /\ SaveResumed /\ ev.status = "ok" /\ ev.val = Bool(TRUE)
    /\ Tracker(ev.caller) = DaoOf(ev.caller, PRIMARY_KEY, TRUE)
    /\ bud.ops[ev.caller] = 0
\* an entity has been deleted, one incremented
C34_WitnessDelete ==
    /\ ev.op = "delete" /\ ev.status = "ok" /\ ev.val = Bool(TRUE)
    /\ Tracker(ev.caller).bound
C34_WitnessIncrement ==
    /\ ev.op = "increment" /\ ev.status = "ok" /\ Tracker(ev.caller).bound
\* the step is the continuation of the insert() or save() of entity t at the
\* head of the queue, and resolves it successfully
ResolvesCall(t) ==
    /\ queue # <<>> /\ Head(queue).t = t
    /\ ev'.caller = t /\ ev'.phase = "resume" /\ ev'.status = "ok"
    /\ ev'.op = "save" => ev'.val = Bool(TRUE)
\* the value of field f the store was last given by the entity's calls
Baseline(t, f) ==
    IF f \in DOMAIN Head(queue).sent THEN Head(queue).sent[f] ELSE Deep(Get(orig[t], f), heap)
\* C35 as stated: with a single tracker and no other writer, when a save()
\* or insert() has resolved successfully `original` holds, for the fields the
\* call sent to the driver, the values that were sent; so a field assigned
\* while the call awaited the driver is in the diff of the next save().
C35_AsStated ==
    [][\A t \in Trackers :
          ResolvesCall(t) =>
             /\ \A f \in DOMAIN Head(queue).sent :
                   Deep(Get(orig[t], f), heap)' = Head(queue).sent[f]
             /\ \A f \in DataFields :
                   Deep(Get(ent[t], f), heap)' # Baseline(t, f) => f \in ChangedFields(t)']_vars
\* The same for a call during which the entity was not mutated
NothingAbsorbedUnmutated ==
    [][\A t \in Trackers :
          (/\ ResolvesCall(t)
           /\ \A f \in DataFields : Deep(Get(ent[t], f), heap) = Baseline(t, f)) =>
             /\ \A f \in DOMAIN Head(queue).sent :
                   Deep(Get(orig[t], f), heap)' = Head(queue).sent[f]
             /\ ChangedFields(t)' = {}]_vars
\* a new entity was inserted with the number 0 and assigned 1 while insert()
\* awaited the driver: the row holds 0, the snapshot 1, the next diff is empty
MutationAbsorbed ==
    /\ ev.op = "insert" /\ ev.phase = "resume" /\ ev.status = "ok"
    /\ src[ev.caller] = "new"
    /\ Len(table) = 1 /\ table[1].value1 = Num(0)
    /\ ent[ev.caller].value1 = Num(1) /\ orig[ev.caller].value1 = Num(1)
    /\ ChangedFields(ev.caller) = {}
\* save(condition) of entity t makes its driver call in the step
SaveConditional(t) ==
    /\ ev'.caller = t /\ ev'.op = "save" /\ ev'.status = "pending"
    /\ ev'.call.method = "updateMany"
\* the condition of the save holds for the stored row of entity t
HoldsForStored(t, condition) ==
    /\ \E i \in DOMAIN table : Get(table[i], PRIMARY_KEY) = SaveKey(t)
    /\ \A i \in DOMAIN table :
          Get(table[i], PRIMARY_KEY) = SaveKey(t) => matchesFilter(table[i], condition.query)
\* the values of the diff that are objects with the keys update and value
ShapedFields(diff) == {k \in DOMAIN diff : diff[k].t \in {"set", "inc"}}
\* C36: for an entity whose primary-key field is unchanged and a condition
\* that holds for its stored row, save(condition) leaves the table as the
\* unconditional save() of the same diff would: each changed field is stored
\* as the entity's value, also when that value is a free-form object of the
\* shape {update: "set" | "inc", value: ...}.
C36_AsStated ==
    [][\A t \in Trackers :
          (/\ SaveConditional(t)
           /\ ent[t][PRIMARY_KEY] = SaveKey(t)
           /\ HoldsForStored(t, ev'.arg)) =>
             DeepTable(table, heap)' =
                 DeepTable(drvUpdate(table, PRIMARY_KEY, SaveKey(t),
                                     firstLevelObjectDifference(orig[t], ent[t], heap)), heap)]_vars
\* The same when no value of the diff has that shape
ConditionalSaveOfPlainValues ==
    [][\A t \in Trackers :
          (/\ SaveConditional(t)
           /\ ent[t][PRIMARY_KEY] = SaveKey(t)
           /\ HoldsForStored(t, ev'.arg)
           /\ ShapedFields(firstLevelObjectDifference(orig[t], ent[t], heap)) = {}) =>
             DeepTable(table, heap)' =
                 DeepTable(drvUpdate(table, PRIMARY_KEY, SaveKey(t),
                                     firstLevelObjectDifference(orig[t], ent[t], heap)), heap)]_vars
\* data = {update: "set", value: 1} was saved with a condition: the row holds 1
ShapedTakenForOperation ==
    /\ ev.op = "save" /\ ev.status = "pending" /\ ev.call.method = "updateMany"
    /\ ent[ev.caller].data = UpdSet(Num(1))
    /\ \E i \in DOMAIN table : table[i].id = ent[ev.caller].id /\ table[i].data = Num(1)
\* save() of entity t makes its driver call in the step
SaveUnconditional(t) ==
    /\ ev'.caller = t /\ ev'.op = "save" /\ ev'.status = "pending"
    /\ ev'.call.method = "update"
\* C38: an unconditional save() changes in the stored rows only the fields of
\* its diff: every other field of every row keeps its stored value, also one
\* changed in storage since the entity was loaded and one that is null in the
\* entity because a projection left it out.
C38_SaveFrame ==
    [][\A t \in Trackers :
          SaveUnconditional(t) =>
             /\ Len(table') = Len(table)
             /\ \A i \in DOMAIN table : \A f \in DOMAIN table[i] \ ChangedFields(t) :
                   /\ f \in DOMAIN table'[i]
                   /\ Deep(table[i][f], heap)' = Deep(table[i][f], heap)]_vars
\* the save of the step left out value1, which the row holds with a value
\* other than the snapshot's
SavedAround(t) ==
    /\ ev.caller = t /\ ev.op = "save" /\ ev.status = "pending" /\ ev.call.method = "update"
    /\ DOMAIN ev.call.updated = {"data"}
    /\ \E i \in DOMAIN table :
          /\ table[i].id = ev.call.keyValue
          /\ table[i].value1 \notin {Null, Get(orig[t], "value1")}
\* value1 was written by someone since the entity was loaded
C38_Witness == \E t \in Trackers : SavedAround(t) /\ src[t] = "stale"
\* value1 was left out by the projection the entity was loaded through
C38_WitnessProjected ==
    \E t \in Trackers : SavedAround(t) /\ src[t] = "loaded" /\ ent[t].value1 = Null
\* value1 was written by the bulk update
C38_WitnessUpdate ==
    \E t \in Trackers : /\ SavedAround(t) /\ src[t] = "stale" /\ bud.fops = 0
                         /\ \A u \in Trackers \ {t} : ~IsLive(u)
\* value1 was written by the increment() of the other entity, which was
\* never assigned a field
C38_WitnessIncrement ==
    \E t \in Trackers : /\ SavedAround(t) /\ src[t] = "stale" /\ bud.fops = 1
                         /\ \A u \in Trackers \ {t} :
                               IsLive(u) /\ bud.mut[u] = FrameScope.mut[u] /\ bud.ops[u] = 0
\* value1 was written by the save of the other entity, whose snapshot holds
\* the value since
C38_WitnessOther ==
    \E t \in Trackers : /\ SavedAround(t) /\ src[t] = "stale" /\ bud.fops = 1
                         /\ \A u \in Trackers \ {t} :
                               /\ IsLive(u) /\ bud.ops[u] = 0
                               /\ Get(orig[u], "value1") = Num(1)
                               /\ ent[u].value1 = Num(1)
\* C39: stored rows change only through driver write calls: the table holds
\* what the last driver write call left, whatever is done since to an entity
\* obtained from findByKey or find (field assignment, in-place mutation of an
\* array or nested object) or to an entity that was inserted.
C39_AsStated == DeepTable(table, heap) = wrote
\* No assignment to a field of an entity changes a stored row
AssignmentKeepsRows ==
    [][(ev'.phase = "app" /\ ev'.op = "none") =>
          DeepTable(table, heap)' = DeepTable(table, heap)]_vars
\* entity t holds an array, date or plain object that a stored row holds too
TableCells == UNION {CellsOf(table[i], heap) : i \in DOMAIN table}
Aliased(t) == CellsOf(ent[t], heap) \cap TableCells # {}
\* insert() stores copies: an entity that shared nothing with the stored
\* rows shares nothing with them after the driver call and after the call
\* has resolved
InsertStoresCopy ==
    [][\A t \in Trackers :
          (ev'.caller = t /\ ev'.op = "insert" /\ ~Aliased(t)) => ~Aliased(t)']_vars
\* and an in-place mutation of such an entity changes no stored row
InsertedRowKept ==
    [][\A t \in Trackers :
          (InPlaceStep(t) /\ ~Aliased(t)) =>
             DeepTable(table, heap)' = DeepTable(table, heap)]_vars
\* the array of an entity loaded by key was pushed to: the row holds the element
LoadedRowMutated ==
    /\ ev.op = "push" /\ src[ev.caller] = "loaded"
    /\ bud.ops[ev.caller] = AliasScope.ops[ev.caller]
    /\ DeepTable(table, heap) # wrote
\* an entity was inserted, then changed in place: the row is as inserted
InsertedThenMutated ==
    /\ ev.op \in {"push", "setKey", "addKey"} /\ src[ev.caller] = "new"
    /\ bud.ops[ev.caller] = 0 /\ ~Waiting(ev.caller)
    /\ ~Aliased(ev.caller)
    /\ Len(table) = 1 /\ table[1].id = ent[ev.caller].id
    /\ Deep(table[1].data, heap) # Deep(ent[ev.caller].data, heap)
    /\ DeepTable(table, heap) = wrote
\* the same for an entity find returned, loaded without value1
FoundRowMutated ==
    /\ ev.op = "push" /\ src[ev.caller] = "loaded"
    /\ bud.ops[ev.caller] = AliasScope.ops[ev.caller]
    /\ ent[ev.caller].value1 = Null /\ bud.mut[ev.caller] = AliasScope.mut[ev.caller] - 1
    /\ DeepTable(table, heap) # wrote
====
